---- MODULE Spec2Model ----
(***************************************************************************)
(* The audio pipeline of candy-learn-pinyin:                               *)
(*   - the client resolver playPinyinAudio (services/geminiService.ts):    *)
(*     memory cache, pending-request table, localStorage, POST /api/tts;   *)
(*   - the two /api/tts handlers of api/tts.ts (Postgres-backed, lines     *)
(*     1-95, and Blob-backed, lines 96-211).                               *)
(*                                                                         *)
(* JavaScript runs one task to completion, then drains the microtask       *)
(* queue, before the next task starts.  An action below is one task with   *)
(* its microtask drain: the synchronous prefix of an async call up to its  *)
(* first await on I/O, or the arrival of an I/O result followed by every   *)
(* continuation that result wakes, in the order the awaits were made.      *)
(***************************************************************************)
EXTENDS Integers, Sequences, FiniteSets, TLC

\* the absent value of a field that holds a name
None == "None"

\* undefined / null where a string (a sequence of characters) is expected
Undefined == << "undefined" >>

(***************************************************************************)
(* Bounds of the model.                                                    *)
(***************************************************************************)
\* number of playPinyinAudio calls made in a session
MaxCalls == 2

\* the pinyin keys the callers ask for
Keys == {"ma", "lü"}

(***************************************************************************)
(* Base64.  Strings are sequences of one-character strings, byte buffers   *)
(* are sequences of 0..255.                                                *)
(***************************************************************************)
B64 ==
  << "A","B","C","D","E","F","G","H","I","J","K","L","M","N","O","P",
     "Q","R","S","T","U","V","W","X","Y","Z","a","b","c","d","e","f",
     "g","h","i","j","k","l","m","n","o","p","q","r","s","t","u","v",
     "w","x","y","z","0","1","2","3","4","5","6","7","8","9","+","/" >>

B64Set == {B64[i] : i \in 1..64}

\* the value 0..63 of each character of the alphabet
B64Value == [c \in B64Set |-> (CHOOSE i \in 1..64 : B64[i] = c) - 1]

B64Index(c) == B64Value[c]

\* /\s/ of decodeBase64's replace
IsWhitespace(c) == c \in {" ", "\n", "\t", "\r"}

\* base64.replace(/\s/g, '')
StripWhitespace(s) == SelectSeq(s, LAMBDA c : ~IsWhitespace(c))

\* atob removes one or two trailing '=' when the length is a multiple of 4
StripPadding(s) ==
  IF Len(s) > 0 /\ Len(s) % 4 = 0 /\ s[Len(s)] = "="
  THEN IF s[Len(s) - 1] = "="
       THEN SubSeq(s, 1, Len(s) - 2)
       ELSE SubSeq(s, 1, Len(s) - 1)
  ELSE s

\* atob throws InvalidCharacterError unless this holds
AtobOk(s) ==
  LET t == StripPadding(s)
  IN  /\ Len(t) % 4 # 1
      /\ \A i \in 1..Len(t) : t[i] \in B64Set

\* The bytes of the unpadded base64 string t: every 4 characters give 3
\* bytes, a last group of 2 or 3 characters gives 1 or 2 bytes.
RECURSIVE AtobGroups(_)
AtobGroups(t) ==
  IF Len(t) >= 4
  THEN LET n == B64Index(t[1]) * 262144 + B64Index(t[2]) * 4096
                + B64Index(t[3]) * 64 + B64Index(t[4])
       IN  << n \div 65536, (n \div 256) % 256, n % 256 >>
             \o AtobGroups(SubSeq(t, 5, Len(t)))
  ELSE IF Len(t) = 3
  THEN LET n == (B64Index(t[1]) * 4096 + B64Index(t[2]) * 64
                 + B64Index(t[3])) \div 4
       IN  << n \div 256, n % 256 >>
  ELSE IF Len(t) = 2
  THEN << (B64Index(t[1]) * 64 + B64Index(t[2])) \div 16 >>
  ELSE << >>

\* atob, for an argument that satisfies AtobOk
Atob(s) == AtobGroups(StripPadding(s))

\* decodeBase64 (geminiService.ts): the buffer, or the thrown error
decodeBase64Throws(base64) == ~AtobOk(StripWhitespace(base64))

decodeBase64(base64) == Atob(StripWhitespace(base64))

\* Buffer.from(bytes).toString('base64')
RECURSIVE ToBase64(_)
ToBase64(b) ==
  IF Len(b) >= 3
  THEN LET n == b[1] * 65536 + b[2] * 256 + b[3]
       IN  << B64[(n \div 262144) + 1], B64[((n \div 4096) % 64) + 1],
              B64[((n \div 64) % 64) + 1], B64[(n % 64) + 1] >>
             \o ToBase64(SubSeq(b, 4, Len(b)))
  ELSE IF Len(b) = 2
  THEN LET n == (b[1] * 256 + b[2]) * 4
       IN  << B64[(n \div 4096) + 1], B64[((n \div 64) % 64) + 1],
              B64[(n % 64) + 1], "=" >>
  ELSE IF Len(b) = 1
  THEN LET n == b[1] * 16
       IN  << B64[(n \div 64) + 1], B64[(n % 64) + 1], "=", "=" >>
  ELSE << >>

(***************************************************************************)
(* Client: services/geminiService.ts                                       *)
(***************************************************************************)
VARIABLES
  audioUrlCache,    \* Map pinyin -> blob URL (0: no entry)
  pendingRequests,  \* Map pinyin -> promise (0: no entry)
  localStorage,     \* storage key -> base64 string (Undefined: no item)
  promises,         \* the fetchPromise objects created so far; `warned`
                    \* records the console.warn of line 90
  calls,            \* the playPinyinAudio calls made so far
  posts,            \* pinyin -> number of POST /api/tts requests issued
  blobUrls          \* URL.createObjectURL results: URL i names blobUrls[i]

clientVars ==
  << audioUrlCache, pendingRequests, localStorage, promises, calls, posts,
     blobUrls >>

(***************************************************************************)
(* Server state: api/tts.ts.  The file holds two handlers, the             *)
(* Postgres-backed one (lines 1-95) and the Blob-backed one (lines         *)
(* 96-211); a deployment runs one of them, named by `variant`.            *)
(***************************************************************************)
VARIABLES
  variant,      \* "postgres" or "blob"
  tableExists,  \* whether the table tts_cache has been created
  tts_cache,    \* the rows of tts_cache: records [text, audio_data]
  blobStore,    \* the blobs of the Vercel Blob store: [pathname, data]
  requests      \* the requests received so far

serverVars == << variant, tableExists, tts_cache, blobStore, requests >>

(***************************************************************************)
(* Platform state: the audio objects of the browser the client runs in,    *)
(* used by unlockAudio (services/geminiService.ts lines 8-29) and by the   *)
(* dual-strategy client (unnamed/part_001 lines 266-465).                  *)
(***************************************************************************)
VARIABLES
  isIOS,            \* the user-agent test of lines 15-16 / 286-287
  isAudioUnlocked,  \* the module flag of line 11 / 289
  unlockCalls,      \* the unlockAudio calls made so far, each with the
                    \* silent Audio element it created, if any
  audioCtx,         \* the AudioContext singleton of part_001 line 275
  audioBufferCache  \* pinyin -> decoded AudioBuffer, NoBuffer when absent

platformVars ==
  << isIOS, isAudioUnlocked, unlockCalls, audioCtx, audioBufferCache >>

(***************************************************************************)
(* The raw PCM decoder: decodeAudioData of unnamed/part_002 lines 56-94.   *)
(***************************************************************************)
VARIABLES
  pcmData,     \* the caller's Uint8Array `data` (line 58)
  pcmDecoded   \* the outcome of decodeAudioData(data, ctx, 24000, 1)

decoderVars == << pcmData, pcmDecoded >>

(***************************************************************************)
(* A PinyinCard: components/PinyinCard.tsx.                                *)
(***************************************************************************)
VARIABLES
  isPlaying,     \* useState of line 13
  isLoading,     \* useState of line 14
  cardError,     \* the error useState of line 15
  timerRef,      \* timerRef.current: the id of the last timer, 0 for null
  disabled,      \* the prop of line 9
  cardTimers,    \* the pending timeouts of line 43: [id, delay]
  cardCalls,     \* the playPinyinAudio calls of line 34 and their outcome
  onClickCalls,  \* number of calls of the onClick prop (line 28)
  cardClicks     \* number of clicks the card has received

cardVars ==
  << isPlaying, isLoading, cardError, timerRef, disabled, cardTimers, cardCalls,
     onClickCalls, cardClicks >>

(***************************************************************************)
(* The memory game: components/MemoryGame.tsx lines 12-141, 192-193.       *)
(***************************************************************************)
VARIABLES
  heap,          \* the CardState objects allocated so far
  cards,         \* useState of line 29: an array of references into heap
  flippedIds,    \* useState of line 30
  isProcessing,  \* useState of line 31
  moves,         \* useState of line 32
  gameWon,       \* useState of line 33
  timeouts,      \* the pending setTimeout callbacks, oldest first, with what
                 \* each captured
  audioPlays,    \* number of playPinyinAudio calls of line 80
  games          \* number of startNewGame calls

memoryVars ==
  << heap, cards, flippedIds, isProcessing, moves, gameWon, timeouts,
     audioPlays, games >>

(***************************************************************************)
(* The quiz: components/QuizGame.tsx lines 16-138.                         *)
(***************************************************************************)
VARIABLES
  score,            \* useState of line 17
  questionCount,    \* useState of line 18
  currentQuestion,  \* useState of line 19: the char asked for, None for null
  options,          \* useState of line 20, as the set of chars offered
  feedback,         \* useState of line 21
  audioState,       \* useState of line 23
  hasPlayed,        \* useState of line 24
  hintShake,        \* useState of line 25
  quizTimerRef,     \* timerRef.current of line 32, 0 for null
  quizTimeouts,     \* the pending timeouts, oldest first: [kind, id]
  quizCalls,        \* the playPinyinAudio calls of line 71 and their outcome
  questions         \* number of generateQuestion calls

quizVars ==
  << score, questionCount, currentQuestion, options, feedback, audioState,
     hasPlayed, hintShake, quizTimerRef, quizTimeouts, quizCalls, questions >>

uiVars == << cardVars, memoryVars, quizVars >>

\* let audioCtx: AudioContext | null = null (part_001 line 275)
NoContext == [created |-> 0, state |-> "none", resuming |-> FALSE]

\* audioBufferCache.get(pinyin) of a key the map does not hold
NoBuffer == [decodedBy |-> 0, duration |-> 0]

\* decodeAudioData has not been called
NotDecoded ==
  [ status |-> "none", error |-> None, decoded |-> << >>,
    channelData |-> << >> ]

LOCAL_STORAGE_PREFIX == "candy_pinyin_cache_v1_"

\* `${LOCAL_STORAGE_PREFIX}${pinyin}`
StorageKey(pinyin) == << LOCAL_STORAGE_PREFIX, pinyin >>

StorageKeys == {StorageKey(k) : k \in Keys}

\* What /api/tts may put in audioData, as the client sees it.
ID3 == ToBase64(<< 73, 68, 51 >>)

WrappedAudio == << "/", "/", "\n", "s", "=" >>

MalformedAudio == << "S", "U", "*", "z" >>

EmptyString == << >>

\* response.json() results: a thrown SyntaxError, or the parsed object
JsonResults ==
  { [parsed |-> FALSE, audioData |-> Undefined],
    [parsed |-> TRUE, audioData |-> Undefined],
    [parsed |-> TRUE, audioData |-> EmptyString],
    [parsed |-> TRUE, audioData |-> ID3],
    [parsed |-> TRUE, audioData |-> WrappedAudio],
    [parsed |-> TRUE, audioData |-> MalformedAudio] }

\* JavaScript truthiness of a string-or-missing value
Truthy(v) == v # Undefined /\ v # EmptyString

\* fetch() outcomes: a rejected fetch, or a response with its ok flag
FetchResults == {"NetworkError", "NotOk", "Ok"}

\* the durations the media element may report (0 stands for NaN or 0)
MediaDurations == {0, 2}

NewCall(pinyin) ==
  [ pinyin |-> pinyin, pc |-> "start", awaits |-> 0, audioUrl |-> 0,
    error |-> None, reads |-> << >>, duration |-> 0 ]

ClientInit ==
  /\ audioUrlCache = [k \in Keys |-> 0]
  /\ pendingRequests = [k \in Keys |-> 0]
  /\ localStorage \in [StorageKeys -> {Undefined, ID3}]
  /\ promises = << >>
  /\ calls = << >>
  /\ posts = [k \in Keys |-> 0]
  /\ blobUrls = << >>

\* a resolver without the memory-cache branch of lines 52-53
CacheHasNever(pinyin) == FALSE

\* line 52: audioUrlCache.has(pinyin)
CacheHas(pinyin) == audioUrlCache[pinyin] # 0

\* a resolver without the deduplication branch of lines 56-57
PendingHasNever(pinyin) == FALSE

\* line 56: pendingRequests.has(pinyin)
PendingHas(pinyin) == pendingRequests[pinyin] # 0

\* line 99: pendingRequests.set(pinyin, fetchPromise)
PendingSet(pinyin, p) == [pendingRequests EXCEPT ![pinyin] = p]

\* a resolver that never removes its pending entry
PendingDeleteForgotten(pinyin) == pendingRequests

\* line 105: pendingRequests.delete(pinyin)
PendingDelete(pinyin) == [pendingRequests EXCEPT ![pinyin] = 0]

\* a memory cache that holds one entry and evicts the others
CacheSetEvicts(pinyin, url) ==
  [k \in Keys |-> IF k = pinyin THEN url ELSE 0]

\* lines 69 and 103: audioUrlCache.set(pinyin, audioUrl)
CacheSet(pinyin, url) == [audioUrlCache EXCEPT ![pinyin] = url]

\* lines 87-91: localStorage.setItem inside try/catch; a throw is swallowed
SetItem(storageKey, value, throws) ==
  IF throws THEN localStorage ELSE [localStorage EXCEPT ![storageKey] = value]

\* lines 111-137: the Audio element is created and load() is called
StartPlayback(call, url) == [call EXCEPT !.pc = "loading", !.audioUrl = url]

\* lines 139-142: catch (error) { ...; throw error }
Reject(call, error) == [call EXCEPT !.pc = "rejected", !.error = error]

\* a resolver that builds the player whatever the fetch gave
ResumePlaysAnyway(call, promise) == StartPlayback(call, promise.url)

\* The continuation of a call suspended at line 57 or line 102 once the
\* promise it awaits has settled.
Resume(call, promise) ==
  IF promise.state = "fulfilled"
  THEN StartPlayback(call, promise.url)
  ELSE Reject(call, promise.error)

\* a settling promise that wakes its creator only
AwaitingOwnerOnly(c, p) ==
  calls[c].awaits = p /\ calls[c].pc = "awaitFetch"

Awaiting(c, p) ==
  calls[c].awaits = p /\ calls[c].pc \in {"awaitPending", "awaitFetch"}

(* playPinyinAudio(pinyin), lines 47-108: the synchronous part of a call. *)
playPinyinAudio(pinyin) ==
  /\ Len(calls) < MaxCalls
  /\ UNCHANGED << serverVars, platformVars, decoderVars, uiVars >>
  /\ LET call == NewCall(pinyin)
         storageKey == StorageKey(pinyin)
         storedBase64 == localStorage[storageKey]
     IN
     IF CacheHas(pinyin)
     THEN \* lines 52-53
          /\ calls' = Append(calls,
               StartPlayback([call EXCEPT !.reads = << "audioUrlCache" >>],
                             audioUrlCache[pinyin]))
          /\ UNCHANGED << audioUrlCache, pendingRequests, localStorage,
                          promises, posts, blobUrls >>
     ELSE IF PendingHas(pinyin)
     THEN \* lines 56-57
          LET p == pendingRequests[pinyin]
              joined == [call EXCEPT
                           !.reads = << "audioUrlCache", "pendingRequests" >>,
                           !.awaits = p, !.pc = "awaitPending"]
          IN  /\ calls' = Append(calls,
                   IF promises[p].state \in {"fulfilled", "rejected"}
                   THEN Resume(joined, promises[p])
                   ELSE joined)
              /\ UNCHANGED << audioUrlCache, pendingRequests, localStorage,
                              promises, posts, blobUrls >>
     ELSE LET read == [call EXCEPT !.reads =
                         << "audioUrlCache", "pendingRequests",
                            "localStorage" >>]
          IN
          IF Truthy(storedBase64)
          THEN \* lines 64-69
               IF decodeBase64Throws(storedBase64)
               THEN /\ calls' = Append(calls,
                                       Reject(read, "InvalidCharacterError"))
                    /\ UNCHANGED << audioUrlCache, pendingRequests,
                                    localStorage, promises, posts, blobUrls >>
               ELSE LET url == Len(blobUrls) + 1
                    IN  /\ blobUrls' = Append(blobUrls,
                                              decodeBase64(storedBase64))
                        /\ audioUrlCache' = CacheSet(pinyin, url)
                        /\ calls' = Append(calls, StartPlayback(read, url))
                        /\ UNCHANGED << pendingRequests, localStorage,
                                        promises, posts >>
          ELSE \* lines 72-102: the fetch is issued, the promise registered
               LET p == Len(promises) + 1
               IN  /\ promises' = Append(promises,
                        [pinyin |-> pinyin, state |-> "fetch", url |-> 0,
                         error |-> None, warned |-> FALSE])
                   /\ posts' = [posts EXCEPT ![pinyin] = @ + 1]
                   /\ pendingRequests' = PendingSet(pinyin, p)
                   /\ calls' = Append(calls,
                        [read EXCEPT !.awaits = p, !.pc = "awaitFetch"])
                   /\ UNCHANGED << audioUrlCache, localStorage, blobUrls >>

\* The call that created promise p and awaits it at line 102.
IsOwner(c, p) == calls[c].awaits = p /\ calls[c].pc = "awaitFetch"

\* a resolver that plays the fetched URL without caching it
OwnerCacheForgotten(promise) == audioUrlCache

\* line 103, reached only when `await fetchPromise` did not throw
OwnerCache(promise) ==
  IF promise.state = "fulfilled"
  THEN CacheSet(promise.pinyin, promise.url)
  ELSE audioUrlCache

\* the delete placed after line 103 inside the try, not in a finally
OwnerPendingOnSuccess(promise) ==
  IF promise.state = "fulfilled"
  THEN PendingDelete(promise.pinyin)
  ELSE pendingRequests

\* lines 104-106: finally { pendingRequests.delete(pinyin) }
OwnerPending(promise) == PendingDelete(promise.pinyin)

(* fetchPromise settles as `promise`.  Its reactions run in the order the  *)
(* awaits were made: the owner's (lines 102-106, then playback), then the  *)
(* joiners' (line 57, then playback).                                      *)
Settle(p, promise) ==
  /\ promises' = [promises EXCEPT ![p] = promise]
  /\ calls' = [c \in DOMAIN calls |->
                 IF Awaiting(c, p) THEN Resume(calls[c], promise)
                 ELSE calls[c]]
  /\ IF \E c \in DOMAIN calls : IsOwner(c, p)
     THEN /\ audioUrlCache' = OwnerCache(promise)
          /\ pendingRequests' = OwnerPending(promise)
     ELSE UNCHANGED << audioUrlCache, pendingRequests >>

Rejected(promise, error, warned) ==
  [promise EXCEPT !.state = "rejected", !.error = error, !.warned = warned]

Fulfilled(promise, url, warned) ==
  [promise EXCEPT !.state = "fulfilled", !.url = url, !.warned = warned]

(* lines 75-81 in a client that repeats a failed fetch() once. *)
FetchSettlesRetries(p, r) ==
  /\ promises[p].state = "fetch"
  /\ UNCHANGED << serverVars, platformVars, decoderVars, uiVars >>
  /\ IF r = "NetworkError" /\ posts[promises[p].pinyin] < 2
     THEN /\ posts' = [posts EXCEPT ![promises[p].pinyin] = @ + 1]
          /\ UNCHANGED << audioUrlCache, pendingRequests, localStorage,
                          promises, calls, blobUrls >>
     ELSE IF r = "NetworkError"
     THEN /\ Settle(p, Rejected(promises[p], "NetworkError", FALSE))
          /\ UNCHANGED << localStorage, posts, blobUrls >>
     ELSE IF r = "NotOk"
     THEN /\ Settle(p, Rejected(promises[p], "Server error", FALSE))
          /\ UNCHANGED << localStorage, posts, blobUrls >>
     ELSE /\ promises' = [promises EXCEPT ![p].state = "json"]
          /\ UNCHANGED << audioUrlCache, pendingRequests, localStorage,
                          calls, posts, blobUrls >>

(* lines 75-81: fetch() settles. *)
FetchSettles(p, r) ==
  /\ promises[p].state = "fetch"
  /\ UNCHANGED << serverVars, platformVars, decoderVars, uiVars >>
  /\ IF r = "NetworkError"
     THEN /\ Settle(p, Rejected(promises[p], "NetworkError", FALSE))
          /\ UNCHANGED << localStorage, posts, blobUrls >>
     ELSE IF r = "NotOk"
     THEN /\ Settle(p, Rejected(promises[p], "Server error", FALSE))
          /\ UNCHANGED << localStorage, posts, blobUrls >>
     ELSE /\ promises' = [promises EXCEPT ![p].state = "json"]
          /\ UNCHANGED << audioUrlCache, pendingRequests, localStorage,
                          calls, posts, blobUrls >>

\* lines 83-96 without the try/catch around setItem: the quota error escapes
FetchBodyQuotaFatal(data, throws) ==
  IF ~data.parsed
  THEN [error |-> "SyntaxError", stored |-> Undefined]
  ELSE IF ~Truthy(data.audioData)
  THEN [error |-> "No audio data received", stored |-> Undefined]
  ELSE IF throws
  THEN [error |-> "QuotaExceededError", stored |-> Undefined]
  ELSE [error |-> IF decodeBase64Throws(data.audioData)
                  THEN "InvalidCharacterError" ELSE None,
        stored |-> data.audioData]

\* lines 83-96 for the result `data` of response.json(), where `throws`
\* says whether localStorage.setItem throws: the error thrown (None: the
\* URL is returned) and the value written to localStorage (Undefined: no
\* write).
FetchBody(data, throws) ==
  IF ~data.parsed
  THEN [error |-> "SyntaxError", stored |-> Undefined]
  ELSE IF ~Truthy(data.audioData)
  THEN [error |-> "No audio data received", stored |-> Undefined]
  ELSE [error |-> IF decodeBase64Throws(data.audioData)
                  THEN "InvalidCharacterError" ELSE None,
        stored |-> IF throws THEN Undefined ELSE data.audioData]

(* lines 83-96: response.json() settles and the rest of the fetch body    *)
(* runs to its return or throw.                                            *)
JsonSettles(p, data, throws) ==
  /\ promises[p].state = "json"
  /\ throws => data.parsed /\ Truthy(data.audioData)
  /\ LET body == FetchBody(data, throws)
         storageKey == StorageKey(promises[p].pinyin)
         url == Len(blobUrls) + 1
     IN  /\ localStorage' =
              IF body.stored # Undefined
              THEN SetItem(storageKey, body.stored, FALSE)
              ELSE localStorage
         /\ IF body.error # None
            THEN /\ Settle(p, Rejected(promises[p], body.error, throws))
                 /\ UNCHANGED blobUrls
            ELSE /\ blobUrls' = Append(blobUrls, decodeBase64(data.audioData))
                 /\ Settle(p, Fulfilled(promises[p], url, throws))
         /\ UNCHANGED << posts, serverVars, platformVars, decoderVars, uiVars >>

(* lines 118-129: 'loadedmetadata' fires; the listener calls audio.play(). *)
LoadedMetadata(c, d) ==
  /\ calls[c].pc = "loading"
  /\ calls' = [calls EXCEPT ![c].pc = "starting",
                            ![c].duration = IF d = 0 THEN 1 ELSE d]
  /\ UNCHANGED << audioUrlCache, pendingRequests, localStorage, promises,
                  posts, blobUrls, serverVars, platformVars, decoderVars, uiVars >>

(* line 124: audio.play() resolves, the call resolves with the duration. *)
PlayResolves(c) ==
  /\ calls[c].pc = "starting"
  /\ calls' = [calls EXCEPT ![c].pc = "resolved"]
  /\ UNCHANGED << audioUrlCache, pendingRequests, localStorage, promises,
                  posts, blobUrls, serverVars, platformVars, decoderVars, uiVars >>

(* lines 125-128: audio.play() rejects. *)
PlayRejects(c) ==
  /\ calls[c].pc = "starting"
  /\ calls' = [calls EXCEPT ![c] = Reject(@, "NotAllowedError")]
  /\ UNCHANGED << audioUrlCache, pendingRequests, localStorage, promises,
                  posts, blobUrls, serverVars, platformVars, decoderVars, uiVars >>

(* lines 131-133: the element's 'error' event. *)
AudioError(c) ==
  /\ calls[c].pc \in {"loading", "starting"}
  /\ calls' = [calls EXCEPT ![c] = Reject(@, "MediaError")]
  /\ UNCHANGED << audioUrlCache, pendingRequests, localStorage, promises,
                  posts, blobUrls, serverVars, platformVars, decoderVars, uiVars >>

ClientNext ==
  \/ \E pinyin \in Keys : playPinyinAudio(pinyin)
  \/ \E p \in DOMAIN promises, r \in FetchResults : FetchSettles(p, r)
  \/ \E p \in DOMAIN promises, data \in JsonResults, throws \in BOOLEAN :
       JsonSettles(p, data, throws)
  \/ \E c \in DOMAIN calls, d \in MediaDurations : LoadedMetadata(c, d)
  \/ \E c \in DOMAIN calls : PlayResolves(c)
  \/ \E c \in DOMAIN calls : PlayRejects(c)
  \/ \E c \in DOMAIN calls : AudioError(c)


(***************************************************************************)
(* Server: api/tts.ts                                                      *)
(***************************************************************************)
\* number of requests the endpoint receives
MaxRequests == 2

\* arrayBuffer.byteLength < 100
MinAudioBytes == 100

\* request texts, as sequences of characters
Texts == { << "m", "a" >>, << "l", "ü" >>, << "l", "v" >> }

\* request.body: missing, {}, {text: ''} or {text: <string>}
Bodies ==
  {[present |-> FALSE, text |-> Undefined]}
    \cup {[present |-> TRUE, text |-> t] :
            t \in {Undefined, EmptyString} \cup Texts}

Methods == {"POST", "GET"}

\* a buffer of n bytes
Body(n, seed) == [i \in 1..n |-> (seed + i) % 256]

\* arrayBuffer() throwing instead of returning bytes
ReadError == << -1 >>

\* what arrayBuffer() of an upstream response may produce
UpstreamBodies ==
  { ReadError, Body(50, 0), Body(MinAudioBytes - 1, 0), Body(MinAudioBytes, 0),
    Body(MinAudioBytes + 1, 7) }

\* what fetch(externalUrl) may produce: a throw or a response
UpstreamResults ==
  { [thrown |-> TRUE, status |-> 0, contentType |-> None],
    [thrown |-> FALSE, status |-> 200, contentType |-> "audio/mpeg"],
    [thrown |-> FALSE, status |-> 200, contentType |-> None],
    [thrown |-> FALSE, status |-> 200, contentType |-> "text/html; charset=utf-8"],
    [thrown |-> FALSE, status |-> 404, contentType |-> "text/html"],
    [thrown |-> FALSE, status |-> 500, contentType |-> None] }

\* Buffer.from(arrayBuffer).toString('base64') of lines 75 and 199, tabulated
\* once for the buffers the external source may return
Base64Audio ==
  [bytes \in UpstreamBodies \ {ReadError} |-> ToBase64(bytes)]

\* Response.ok
IsOk(status) == status \in 200..299

\* contentType && contentType.includes('text/html')
IsHtml(contentType) ==
  contentType \in {"text/html", "text/html; charset=utf-8"}

\* a handler that uses the request text as it came
NormalizeSkipped(text) == text

\* text.replace(/ü/g, 'v')
Normalize(text) == [i \in 1..Len(text) |-> IF text[i] = "ü" THEN "v" ELSE text[i]]

\* const { text } = request.body || {}
TextOf(body) == IF body.present THEN body.text ELSE Undefined

\* A request as the handler holds it: `conn` names the client fetch the
\* request came from (0: some other client), `raw` is request.body.text,
\* `text` is the handler's variable of that name, `fetched` lists the file
\* names asked of the external source, `byteLength` is
\* arrayBuffer.byteLength once the body was read (-1 before).
NewRequest(method) ==
  [ method |-> method, conn |-> 0, pc |-> "start", raw |-> Undefined,
    text |-> Undefined,
    status |-> 0, reply |-> None, audioData |-> Undefined, responses |-> 0,
    lookups |-> 0, fetched |-> << >>, byteLength |-> -1, writes |-> 0 ]

\* response.status(s).json({ error }) or .send(text)
RespondError(req, status, message) ==
  [req EXCEPT !.pc = "done", !.status = status, !.reply = message,
              !.responses = @ + 1]

\* response.status(200).json({ audioData })
RespondAudio(req, audioData) ==
  [req EXCEPT !.pc = "done", !.status = 200, !.reply = "audioData",
              !.audioData = audioData, !.responses = @ + 1]

\* fetch(`http://du.hanyupinyin.cn/du/pinyin/${downloadChar}.mp3`) is issued
IssueFetch(req, downloadChar, pc) ==
  [req EXCEPT !.pc = pc, !.fetched = Append(@, downloadChar)]

ServerInit ==
  /\ variant \in {"postgres", "blob"}
  /\ tableExists \in BOOLEAN
  /\ tts_cache = {}
  /\ blobStore = {}
  /\ requests = << >>

(***************************************************************************)
(* The Postgres-backed handler, lines 4-95.                                *)
(***************************************************************************)
\* lines 5-22 without the `if (!text)` of lines 12-14
PgStartNoValidation(method, body) ==
  LET req == NewRequest(method)
      text == TextOf(body)
  IN  IF method # "POST"
      THEN RespondError(req, 405, "Method Not Allowed")
      ELSE [req EXCEPT !.raw = text, !.text = Normalize(text),
                       !.pc = "select", !.lookups = @ + 1]

\* lines 5-22: method check, validation, normalisation, SELECT issued
PgStart(method, body) ==
  LET req == NewRequest(method)
      text == TextOf(body)
  IN  IF method # "POST"
      THEN RespondError(req, 405, "Method Not Allowed")
      ELSE IF ~Truthy(text)
      THEN RespondError([req EXCEPT !.raw = text, !.text = text], 400,
                        "Text is required")
      ELSE [req EXCEPT !.raw = text, !.text = Normalize(text),
                       !.pc = "select", !.lookups = @ + 1]

PgHandler(method, body) ==
  /\ variant = "postgres"
  /\ Len(requests) < MaxRequests
  /\ requests' = Append(requests, PgStart(method, body))
  /\ UNCHANGED << clientVars, platformVars, decoderVars, uiVars, variant, tableExists, tts_cache, blobStore >>

\* SELECT audio_data FROM tts_cache WHERE text = ${text} LIMIT 1
SelectRows(text) == {row \in tts_cache : row.text = text}

\* lines 24-48 with the hit branch never taken
PgAfterSelectIgnoresHit(req, rows) == IssueFetch(req, req.text, "fetch")

\* lines 24-48: the SELECT returned `rows`
PgAfterSelect(req, rows) ==
  IF rows # {}
  THEN RespondAudio(req, (CHOOSE row \in rows : TRUE).audio_data)
  ELSE IssueFetch(req, req.text, "fetch")

\* lines 22-27 without the inner try/catch: a throwing SELECT reaches the
\* catch of lines 91-94
PgSelectSettlesFatal(r, dbError) ==
  /\ variant = "postgres"
  /\ requests[r].pc = "select"
  /\ requests' = [requests EXCEPT ![r] =
       IF dbError \/ ~tableExists
       THEN RespondError(@, 500, "Internal Server Error")
       ELSE PgAfterSelect(@, SelectRows(@.text))]
  /\ UNCHANGED << clientVars, platformVars, decoderVars, uiVars, variant, tableExists, tts_cache, blobStore >>

\* lines 22-48: the SELECT settles; a throw leads to the CREATE TABLE
PgSelectSettles(r, dbError) ==
  /\ variant = "postgres"
  /\ requests[r].pc = "select"
  /\ requests' = [requests EXCEPT ![r] =
       IF dbError \/ ~tableExists
       THEN [@ EXCEPT !.pc = "create"]
       ELSE PgAfterSelect(@, SelectRows(@.text))]
  /\ UNCHANGED << clientVars, platformVars, decoderVars, uiVars, variant, tableExists, tts_cache, blobStore >>

\* lines 32-48: CREATE TABLE IF NOT EXISTS settles, then the fetch is issued
PgCreateSettles(r, createError) ==
  /\ variant = "postgres"
  /\ requests[r].pc = "create"
  /\ tableExists' = (tableExists \/ ~createError)
  /\ requests' = [requests EXCEPT ![r] =
                    IssueFetch(@, @.text, "fetch")]
  /\ UNCHANGED << clientVars, platformVars, decoderVars, uiVars, variant, tts_cache, blobStore >>

\* lines 58-69 without the content-type test of lines 63-67
ValidateIgnoresContentType(req, res) ==
  IF res.thrown
  THEN RespondError(req, 500, "Internal Server Error")
  ELSE IF ~IsOk(res.status)
  THEN RespondError(req, 404, "Audio source not found")
  ELSE [req EXCEPT !.pc = "arrayBuffer"]

\* lines 58-69 without the status test of lines 58-61
ValidateIgnoresStatus(req, res) ==
  IF res.thrown
  THEN RespondError(req, 500, "Internal Server Error")
  ELSE IF IsHtml(res.contentType)
  THEN RespondError(req, 404, "Audio source returned HTML instead of Audio")
  ELSE [req EXCEPT !.pc = "arrayBuffer"]

\* lines 58-69 in a handler without the catch of lines 91-94: a thrown fetch
\* ends the handler with no response
ValidateUncaught(req, res) ==
  IF res.thrown
  THEN [req EXCEPT !.pc = "done"]
  ELSE IF ~IsOk(res.status)
  THEN RespondError(req, 404, "Audio source not found")
  ELSE IF IsHtml(res.contentType)
  THEN RespondError(req, 404, "Audio source returned HTML instead of Audio")
  ELSE [req EXCEPT !.pc = "arrayBuffer"]

\* lines 58-69, after the last fetch settled with `res`
Validate(req, res) ==
  IF res.thrown
  THEN RespondError(req, 500, "Internal Server Error")
  ELSE IF ~IsOk(res.status)
  THEN RespondError(req, 404, "Audio source not found")
  ELSE IF IsHtml(res.contentType)
  THEN RespondError(req, 404, "Audio source returned HTML instead of Audio")
  ELSE [req EXCEPT !.pc = "arrayBuffer"]

\* lines 48-69: the first fetch settles
PgFetchSettles(r, res) ==
  /\ variant = "postgres"
  /\ requests[r].pc = "fetch"
  /\ requests' = [requests EXCEPT ![r] =
       IF ~res.thrown /\ res.status = 404
       THEN IssueFetch(@, @.text \o << "1" >>, "fallback")
       ELSE Validate(@, res)]
  /\ UNCHANGED << clientVars, platformVars, decoderVars, uiVars, variant, tableExists, tts_cache, blobStore >>

\* lines 51-56 written as a loop: every 404 appends another tone mark
PgFallbackSettlesRetries(r, res) ==
  /\ variant = "postgres"
  /\ requests[r].pc = "fallback"
  /\ requests' = [requests EXCEPT ![r] =
       IF ~res.thrown /\ res.status = 404 /\ Len(@.fetched) < 3
       THEN IssueFetch(@, @.fetched[Len(@.fetched)] \o << "1" >>, "fallback")
       ELSE Validate(@, res)]
  /\ UNCHANGED << clientVars, platformVars, decoderVars, uiVars, variant, tableExists, tts_cache, blobStore >>

\* lines 55-69: the fallback fetch settles
PgFallbackSettles(r, res) ==
  /\ variant = "postgres"
  /\ requests[r].pc = "fallback"
  /\ requests' = [requests EXCEPT ![r] = Validate(@, res)]
  /\ UNCHANGED << clientVars, platformVars, decoderVars, uiVars, variant, tableExists, tts_cache, blobStore >>

\* lines 69-83 without the byteLength test of lines 70-73
CheckSizeMissing(req, bytes, pc) ==
  IF bytes = ReadError
  THEN RespondError(req, 500, "Internal Server Error")
  ELSE [req EXCEPT !.pc = pc, !.byteLength = Len(bytes),
                   !.audioData = Base64Audio[bytes], !.writes = @ + 1]

\* lines 69-83 with the test written as byteLength < 99
CheckSizeOffByOne(req, bytes, pc) ==
  IF bytes = ReadError
  THEN RespondError(req, 500, "Internal Server Error")
  ELSE IF Len(bytes) < MinAudioBytes - 1
  THEN RespondError([req EXCEPT !.byteLength = Len(bytes)], 500,
                    "Audio file invalid or empty")
  ELSE [req EXCEPT !.pc = pc, !.byteLength = Len(bytes),
                   !.audioData = Base64Audio[bytes], !.writes = @ + 1]

\* lines 69-83 and 191-203: arrayBuffer() settles with `bytes`
CheckSize(req, bytes, pc) ==
  IF bytes = ReadError
  THEN RespondError(req, 500, "Internal Server Error")
  ELSE IF Len(bytes) < MinAudioBytes
  THEN RespondError([req EXCEPT !.byteLength = Len(bytes)], 500,
                    "Audio file invalid or empty")
  ELSE [req EXCEPT !.pc = pc, !.byteLength = Len(bytes),
                   !.audioData = Base64Audio[bytes], !.writes = @ + 1]

PgBodySettles(r, bytes) ==
  /\ variant = "postgres"
  /\ requests[r].pc = "arrayBuffer"
  /\ requests' = [requests EXCEPT ![r] = CheckSize(@, bytes, "insert")]
  /\ UNCHANGED << clientVars, platformVars, decoderVars, uiVars, variant, tableExists, tts_cache, blobStore >>

\* a handler whose cache write is not wrapped in try/catch: the error reaches
\* the catch of lines 91-94
AfterWriteFatal(req, failed) ==
  IF failed
  THEN RespondError(req, 500, "Internal Server Error")
  ELSE RespondAudio(req, req.audioData)

\* lines 85-89 and 143-146, 205: the cache write settled, `failed` when it
\* threw; the error is logged and the payload is sent
AfterWrite(req, failed) == RespondAudio(req, req.audioData)

\* INSERT ... ON CONFLICT (text) DO UPDATE SET audio_data = EXCLUDED.audio_data
InsertOverwrites(text, audio_data) ==
  {row \in tts_cache : row.text # text}
    \cup {[text |-> text, audio_data |-> audio_data]}

\* INSERT INTO tts_cache ... ON CONFLICT (text) DO NOTHING
Insert(text, audio_data) ==
  IF SelectRows(text) # {}
  THEN tts_cache
  ELSE tts_cache \cup {[text |-> text, audio_data |-> audio_data]}

\* lines 78-89: the INSERT settles; an error is logged and ignored
PgInsertSettles(r, dbError) ==
  /\ variant = "postgres"
  /\ requests[r].pc = "insert"
  /\ tts_cache' =
       IF dbError \/ ~tableExists THEN tts_cache
       ELSE Insert(requests[r].text, requests[r].audioData)
  /\ requests' = [requests EXCEPT ![r] = AfterWrite(@, dbError \/ ~tableExists)]
  /\ UNCHANGED << clientVars, platformVars, decoderVars, uiVars, variant, tableExists, blobStore >>

(***************************************************************************)
(* The Blob-backed handler, lines 96-211.                                  *)
(***************************************************************************)
RECURSIVE encodeURIComponent(_)
encodeURIComponent(text) ==
  IF text = << >> THEN << >>
  ELSE (IF Head(text) = "ü" THEN << "%", "C", "3", "%", "B", "C" >>
        ELSE << Head(text) >>) \o encodeURIComponent(Tail(text))

\* `audio/${encodeURIComponent(text)}.mp3`, lines 107 and 135
Filename(text) ==
  << "a", "u", "d", "i", "o", "/" >> \o encodeURIComponent(text)
    \o << ".", "m", "p", "3" >>

IsPrefix(prefix, s) ==
  Len(prefix) <= Len(s) /\ SubSeq(s, 1, Len(prefix)) = prefix

\* list({ prefix, limit: 1 }): the blobs the call may return
Listed(prefix) == {b \in blobStore : IsPrefix(prefix, b.pathname)}

\* a decoder that drops the padded last group of the string
BufferFromBase64Lossy(s) ==
  LET t == SelectSeq(s, LAMBDA c : c \in B64Set)
  IN  AtobGroups(SubSeq(t, 1, 4 * (Len(t) \div 4)))

\* Buffer.from(base64Audio, 'base64'): characters outside the alphabet are
\* skipped, the rest is decoded
BufferFromBase64(s) ==
  AtobGroups(SelectSeq(s, LAMBDA c : c \in B64Set))

\* Buffer.from(base64Audio, 'base64') of line 136, tabulated for the strings
\* the handler may pass to saveToCache
SavedBuffer ==
  [s \in {Base64Audio[bytes] : bytes \in DOMAIN Base64Audio} |->
     BufferFromBase64(s)]

\* Buffer.from(arrayBuffer).toString('base64') of line 122, tabulated for the
\* buffers saveToCache may have stored
CachedBase64 ==
  [data \in {SavedBuffer[s] : s \in DOMAIN SavedBuffer} |-> ToBase64(data)]

\* lines 154-162 without the method test of lines 150-152
BlobStartAnyMethod(method, body) ==
  LET req == NewRequest(method)
      text == TextOf(body)
  IN  IF ~Truthy(text)
      THEN RespondError([req EXCEPT !.raw = text, !.text = text], 400,
                        "Text is required")
      ELSE [req EXCEPT !.raw = text, !.text = text, !.pc = "list",
                       !.lookups = @ + 1]

\* lines 150-162: method check, validation, list() of getFromCache issued
BlobStart(method, body) ==
  LET req == NewRequest(method)
      text == TextOf(body)
  IN  IF method # "POST"
      THEN RespondError(req, 405, "Method Not Allowed")
      ELSE IF ~Truthy(text)
      THEN RespondError([req EXCEPT !.raw = text, !.text = text], 400,
                        "Text is required")
      ELSE [req EXCEPT !.raw = text, !.text = text, !.pc = "list",
                       !.lookups = @ + 1]

BlobHandler(method, body) ==
  /\ variant = "blob"
  /\ Len(requests) < MaxRequests
  /\ requests' = Append(requests, BlobStart(method, body))
  /\ UNCHANGED << clientVars, platformVars, decoderVars, uiVars, variant, tableExists, tts_cache, blobStore >>

\* lines 167-176: cache miss, the external fetch is issued
BlobMiss(req) == IssueFetch(req, Normalize(req.text), "fetch")

\* lines 110-127: list() settles with `blobs` (at most one blob) or throws
BlobListSettles(r, listError, blobs) ==
  /\ variant = "blob"
  /\ requests[r].pc = "list"
  /\ blobs \subseteq Listed(Filename(requests[r].text))
  /\ Cardinality(blobs) = IF Listed(Filename(requests[r].text)) = {} THEN 0 ELSE 1
  /\ requests' = [requests EXCEPT ![r] =
       IF ~listError /\ \E b \in blobs : b.pathname = Filename(@.text)
       THEN [@ EXCEPT !.pc = "read"]
       ELSE BlobMiss(@)]
  /\ UNCHANGED << clientVars, platformVars, decoderVars, uiVars, variant, tableExists, tts_cache, blobStore >>

\* lines 117-127 and 162-176: fetch(blob.url) and arrayBuffer() settle
BlobReadSettles(r, readError) ==
  /\ variant = "blob"
  /\ requests[r].pc = "read"
  /\ LET req == requests[r]
         found == {b \in blobStore : b.pathname = Filename(req.text)}
         cachedAudio ==
           IF readError \/ found = {} THEN Undefined
           ELSE CachedBase64[(CHOOSE b \in found : TRUE).data]
     IN  requests' = [requests EXCEPT ![r] =
           IF Truthy(cachedAudio) THEN RespondAudio(req, cachedAudio)
           ELSE BlobMiss(req)]
  /\ UNCHANGED << clientVars, platformVars, decoderVars, uiVars, variant, tableExists, tts_cache, blobStore >>

\* lines 176-191: the external fetch settles
BlobFetchSettles(r, res) ==
  /\ variant = "blob"
  /\ requests[r].pc = "fetch"
  /\ requests' = [requests EXCEPT ![r] = Validate(@, res)]
  /\ UNCHANGED << clientVars, platformVars, decoderVars, uiVars, variant, tableExists, tts_cache, blobStore >>

\* lines 191-203: arrayBuffer() settles, put() of saveToCache is issued
BlobBodySettles(r, bytes) ==
  /\ variant = "blob"
  /\ requests[r].pc = "arrayBuffer"
  /\ requests' = [requests EXCEPT ![r] = CheckSize(@, bytes, "put")]
  /\ UNCHANGED << clientVars, platformVars, decoderVars, uiVars, variant, tableExists, tts_cache, blobStore >>

\* put(filename, buffer, { addRandomSuffix: false })
Put(pathname, data) ==
  {b \in blobStore : b.pathname # pathname}
    \cup {[pathname |-> pathname, data |-> data]}

\* lines 133-146 and 203-205: put() settles; an error is logged and ignored
BlobPutSettles(r, putError) ==
  /\ variant = "blob"
  /\ requests[r].pc = "put"
  /\ blobStore' =
       IF putError THEN blobStore
       ELSE Put(Filename(requests[r].text),
                SavedBuffer[requests[r].audioData])
  /\ requests' = [requests EXCEPT ![r] = AfterWrite(@, putError)]
  /\ UNCHANGED << clientVars, platformVars, decoderVars, uiVars, variant, tableExists, tts_cache >>

ServerNext ==
  \/ \E method \in Methods, body \in Bodies : PgHandler(method, body)
  \/ \E r \in DOMAIN requests, dbError \in BOOLEAN : PgSelectSettles(r, dbError)
  \/ \E r \in DOMAIN requests, createError \in BOOLEAN :
       PgCreateSettles(r, createError)
  \/ \E r \in DOMAIN requests, res \in UpstreamResults : PgFetchSettles(r, res)
  \/ \E r \in DOMAIN requests, res \in UpstreamResults :
       PgFallbackSettles(r, res)
  \/ \E r \in DOMAIN requests, bytes \in UpstreamBodies : PgBodySettles(r, bytes)
  \/ \E r \in DOMAIN requests, dbError \in BOOLEAN : PgInsertSettles(r, dbError)
  \/ \E method \in Methods, body \in Bodies : BlobHandler(method, body)
  \/ \E r \in DOMAIN requests, listError \in BOOLEAN,
        blobs \in SUBSET blobStore : BlobListSettles(r, listError, blobs)
  \/ \E r \in DOMAIN requests, readError \in BOOLEAN :
       BlobReadSettles(r, readError)
  \/ \E r \in DOMAIN requests, res \in UpstreamResults :
       BlobFetchSettles(r, res)
  \/ \E r \in DOMAIN requests, bytes \in UpstreamBodies :
       BlobBodySettles(r, bytes)
  \/ \E r \in DOMAIN requests, putError \in BOOLEAN : BlobPutSettles(r, putError)

(***************************************************************************)
(* Specifications.  The client and the server are checked apart: while one *)
(* runs, the other stays as constructed.                                   *)
(***************************************************************************)
vars == << clientVars, serverVars, platformVars, decoderVars, uiVars >>

ClientIdle ==
  /\ ClientInit
  /\ localStorage = [sk \in StorageKeys |-> Undefined]

ServerIdle ==
  /\ ServerInit
  /\ variant = "postgres"
  /\ tableExists = FALSE

\* a browser in which no audio object has been made
PlatformIdle ==
  /\ isIOS = FALSE
  /\ isAudioUnlocked = FALSE
  /\ unlockCalls = << >>
  /\ audioCtx = NoContext
  /\ audioBufferCache = [k \in Keys |-> NoBuffer]

\* a card nobody has clicked: the initial values of lines 13-16
CardIdle ==
  /\ isPlaying = FALSE /\ isLoading = FALSE /\ cardError = FALSE
  /\ timerRef = 0 /\ disabled = FALSE /\ cardTimers = {}
  /\ cardCalls = << >> /\ onClickCalls = 0 /\ cardClicks = 0

\* no memory game is mounted
MemoryIdle ==
  /\ heap = << >> /\ cards = << >> /\ flippedIds = << >>
  /\ isProcessing = FALSE /\ moves = 0 /\ gameWon = FALSE
  /\ timeouts = << >> /\ audioPlays = 0 /\ games = 0

\* no quiz is mounted
QuizIdle ==
  /\ score = 0 /\ questionCount = 0 /\ currentQuestion = None
  /\ options = {} /\ feedback = "idle" /\ audioState = "idle"
  /\ hasPlayed = FALSE /\ hintShake = FALSE /\ quizTimerRef = 0
  /\ quizTimeouts = << >> /\ quizCalls = << >> /\ questions = 0

\* no component is in use
UiIdle == CardIdle /\ MemoryIdle /\ QuizIdle

\* no PCM payload has been handed to the decoder
DecoderIdle ==
  /\ pcmData = << >>
  /\ pcmDecoded = NotDecoded

\* the client alone, beside a server that receives nothing
InitClient == ClientInit /\ ServerIdle /\ PlatformIdle /\ DecoderIdle /\ UiIdle

\* the server alone, beside a client that makes no call
InitServer == ServerInit /\ ClientIdle /\ PlatformIdle /\ DecoderIdle /\ UiIdle

SpecClient == InitClient /\ [][ClientNext]_vars

SpecServer == InitServer /\ [][ServerNext]_vars

\* The client under the proviso that what it waits for settles: every
\* fetch() and response.json() settles, every Audio element fires
\* 'loadedmetadata' or 'error', and every audio.play() settles.  Nothing
\* obliges a caller to make a further call.
ClientFairness ==
  /\ \A p \in 1..MaxCalls :
       /\ WF_vars(p \in DOMAIN promises
                    /\ \E r \in FetchResults : FetchSettles(p, r))
       /\ WF_vars(p \in DOMAIN promises
                    /\ \E data \in JsonResults, throws \in BOOLEAN :
                         JsonSettles(p, data, throws))
  /\ \A c \in 1..MaxCalls :
       /\ WF_vars(c \in DOMAIN calls
                    /\ ((\E d \in MediaDurations : LoadedMetadata(c, d))
                        \/ AudioError(c)))
       /\ WF_vars(c \in DOMAIN calls
                    /\ (PlayResolves(c) \/ PlayRejects(c) \/ AudioError(c)))

SpecClientLive == InitClient /\ [][ClientNext]_vars /\ ClientFairness

(***************************************************************************)
(* The client and the server composed: the POST of line 75 reaches the     *)
(* handler, and the handler's response settles the client's fetch.         *)
(***************************************************************************)
\* the characters of a key
PinyinChars == ("ma" :> << "m", "a" >>) @@ ("lü" :> << "l", "ü" >>)

\* JSON.stringify({ text: pinyin }), as the handler's request.body
RequestBody(pinyin) == [present |-> TRUE, text |-> PinyinChars[pinyin]]

\* the server request that came from fetch p
RequestsOf(p) == {r \in DOMAIN requests : requests[r].conn = p}

\* the POST of fetch p arrives and the deployed handler starts
PostArrives(p) ==
  /\ promises[p].state = "fetch"
  /\ RequestsOf(p) = {}
  /\ Len(requests) < MaxRequests
  /\ LET body == RequestBody(promises[p].pinyin)
         req == IF variant = "postgres" THEN PgStart("POST", body)
                ELSE BlobStart("POST", body)
     IN  requests' = Append(requests, [req EXCEPT !.conn = p])
  /\ UNCHANGED << clientVars, platformVars, decoderVars, uiVars, variant, tableExists, tts_cache, blobStore >>

\* the handler's response reaches the client: fetch() of line 75 resolves
ResponseArrives(p) ==
  \E r \in RequestsOf(p) :
    /\ requests[r].pc = "done"
    /\ FetchSettles(p, IF IsOk(requests[r].status) THEN "Ok" ELSE "NotOk")

\* response.json() of line 83 resolves with the handler's JSON body
BodyArrives(p, throws) ==
  \E r \in RequestsOf(p) :
    /\ requests[r].pc = "done"
    /\ JsonSettles(p, [parsed |-> TRUE, audioData |-> requests[r].audioData],
                   throws)

\* the connection fails: fetch() of line 75 rejects
NetworkFails(p) == FetchSettles(p, "NetworkError")

EndToEndNext ==
  \/ \E pinyin \in Keys : playPinyinAudio(pinyin)
  \/ \E p \in DOMAIN promises : PostArrives(p)
  \/ \E p \in DOMAIN promises : ResponseArrives(p)
  \/ \E p \in DOMAIN promises, throws \in BOOLEAN : BodyArrives(p, throws)
  \/ \E p \in DOMAIN promises : NetworkFails(p)
  \/ \E c \in DOMAIN calls, d \in MediaDurations : LoadedMetadata(c, d)
  \/ \E c \in DOMAIN calls : PlayResolves(c)
  \/ \E c \in DOMAIN calls : PlayRejects(c)
  \/ \E c \in DOMAIN calls : AudioError(c)
  \/ \E r \in DOMAIN requests, dbError \in BOOLEAN : PgSelectSettles(r, dbError)
  \/ \E r \in DOMAIN requests, createError \in BOOLEAN :
       PgCreateSettles(r, createError)
  \/ \E r \in DOMAIN requests, res \in UpstreamResults : PgFetchSettles(r, res)
  \/ \E r \in DOMAIN requests, res \in UpstreamResults :
       PgFallbackSettles(r, res)
  \/ \E r \in DOMAIN requests, bytes \in UpstreamBodies : PgBodySettles(r, bytes)
  \/ \E r \in DOMAIN requests, dbError \in BOOLEAN : PgInsertSettles(r, dbError)
  \/ \E r \in DOMAIN requests, listError \in BOOLEAN,
        blobs \in SUBSET blobStore : BlobListSettles(r, listError, blobs)
  \/ \E r \in DOMAIN requests, readError \in BOOLEAN :
       BlobReadSettles(r, readError)
  \/ \E r \in DOMAIN requests, res \in UpstreamResults :
       BlobFetchSettles(r, res)
  \/ \E r \in DOMAIN requests, bytes \in UpstreamBodies :
       BlobBodySettles(r, bytes)
  \/ \E r \in DOMAIN requests, putError \in BOOLEAN : BlobPutSettles(r, putError)

\* empty client caches, empty server caches
InitEndToEnd == ClientIdle /\ ServerInit /\ PlatformIdle /\ DecoderIdle /\ UiIdle

SpecEndToEnd == InitEndToEnd /\ [][EndToEndNext]_vars

(***************************************************************************)
(* unlockAudio: services/geminiService.ts lines 8-29.                      *)
(***************************************************************************)
\* number of unlockAudio calls made in a session
MaxUnlocks == 5

\* an unlockAudio that plays the silent clip on every call on iOS
SilentPlayAlways == IF isIOS THEN "pending" ELSE "none"

\* lines 19-23 (part_001 lines 302-306): the silent Audio element that this
\* unlockAudio call creates and plays, "none" when it returns before
SilentPlay == IF isIOS /\ ~isAudioUnlocked THEN "pending" ELSE "none"

(* lines 13-29: unlockAudio(). *)
unlockAudio ==
  /\ Len(unlockCalls) < MaxUnlocks
  /\ unlockCalls' = Append(unlockCalls, [play |-> SilentPlay])
  /\ UNCHANGED << clientVars, serverVars, decoderVars, uiVars, isIOS, isAudioUnlocked, audioCtx,
                  audioBufferCache >>

(* geminiService.ts lines 23-26 (part_001 lines 306-309): the silent       *)
(* audio.play() resolves.                                                  *)
SilentPlayResolves(u) ==
  /\ unlockCalls[u].play = "pending"
  /\ unlockCalls' = [unlockCalls EXCEPT ![u].play = "resolved"]
  /\ isAudioUnlocked' = TRUE
  /\ UNCHANGED << clientVars, serverVars, decoderVars, uiVars, isIOS, audioCtx, audioBufferCache >>

(* geminiService.ts lines 26-28 (part_001 lines 309-311): the silent       *)
(* audio.play() rejects; the catch swallows it.                            *)
SilentPlayRejects(u) ==
  /\ unlockCalls[u].play = "pending"
  /\ unlockCalls' = [unlockCalls EXCEPT ![u].play = "rejected"]
  /\ UNCHANGED << clientVars, serverVars, decoderVars, uiVars, isIOS, isAudioUnlocked, audioCtx,
                  audioBufferCache >>

UnlockNext ==
  \/ unlockAudio
  \/ \E u \in DOMAIN unlockCalls : SilentPlayResolves(u)
  \/ \E u \in DOMAIN unlockCalls : SilentPlayRejects(u)

(***************************************************************************)
(* The dual-strategy client: unnamed/part_001 lines 266-465.  It keeps the *)
(* raw bytes behind pendingRequests and localStorage and plays them with   *)
(* an HTML5 Audio element on iOS and with the Web Audio API elsewhere.     *)
(* One action is one task of the event loop with the microtasks it queues. *)
(***************************************************************************)
\* number of unlockAudio calls made beside the dual-strategy client
MaxDualUnlocks == 1

\* the states a browser may construct an AudioContext in
ContextStates == {"suspended", "running"}

\* lines 315-324: base64ToArrayBuffer, the thrown error or the buffer
base64ToArrayBufferThrows(base64) == ~AtobOk(StripWhitespace(base64))

base64ToArrayBuffer(base64) == Atob(StripWhitespace(base64))

\* the state the dual-strategy client reads and writes
DualState ==
  [ audioUrlCache |-> audioUrlCache, pendingRequests |-> pendingRequests,
    localStorage |-> localStorage, promises |-> promises, calls |-> calls,
    posts |-> posts, blobUrls |-> blobUrls, audioCtx |-> audioCtx,
    audioBufferCache |-> audioBufferCache ]

\* the state S is the next state
Commit(S) ==
  /\ audioUrlCache' = S.audioUrlCache
  /\ pendingRequests' = S.pendingRequests
  /\ localStorage' = S.localStorage
  /\ promises' = S.promises
  /\ calls' = S.calls
  /\ posts' = S.posts
  /\ blobUrls' = S.blobUrls
  /\ audioCtx' = S.audioCtx
  /\ audioBufferCache' = S.audioBufferCache

\* An ArrayBuffer object of the client: the raw-data promise it came from
\* (`promise`, or `owner` for the promise a call settled from localStorage)
\* and the call it was copied for (0: the promise's own buffer).
NoArrayBuffer == [promise |-> 0, owner |-> 0, copy |-> 0]

\* a fetchAudioData that hands every caller the promise's own buffer
SliceOmitted(origin, c) == [origin EXCEPT !.copy = 0]

\* lines 335 and 370: buffer.slice(0), a new ArrayBuffer for caller c
Slice(origin, c) == [origin EXCEPT !.copy = c]

NewDualCall(pinyin) ==
  [ pinyin |-> pinyin, pc |-> "start", awaits |-> 0, audioUrl |-> 0,
    error |-> None, duration |-> 0, raw |-> << >>, startedOn |-> "none",
    waited |-> FALSE, buffer |-> NoArrayBuffer ]

\* lines 277-283: getAudioContext(); `state` is the state the browser gives
\* a context it constructs
getAudioContext(ctx, state) ==
  IF ctx.created = 0
  THEN [created |-> 1, state |-> state, resuming |-> FALSE]
  ELSE ctx

\* lines 441-446: the source node is created and started
StartSource(S, c, duration) ==
  [S EXCEPT !.calls[c].pc = "resolved", !.calls[c].duration = duration,
            !.calls[c].startedOn = S.audioCtx.state]

\* The continuation of call c once fetchAudioData has returned the
\* ArrayBuffer `buffer` holding `bytes`: lines 388-394 on iOS, line 437
\* elsewhere.
WithData(S, c, bytes, buffer) ==
  IF isIOS
  THEN LET url == Len(S.blobUrls) + 1
       IN  [S EXCEPT !.blobUrls = Append(@, bytes),
                     !.audioUrlCache[S.calls[c].pinyin] = url,
                     !.calls[c] = [StartPlayback(@, url)
                                     EXCEPT !.buffer = buffer]]
  ELSE [S EXCEPT !.calls[c].pc = "decoding", !.calls[c].raw = bytes,
                 !.calls[c].buffer = buffer]

\* lines 330-376: fetchAudioData(pinyin) as far as call c runs in this task
fetchAudioData(S, c) ==
  LET pinyin == S.calls[c].pinyin
      storedBase64 == S.localStorage[StorageKey(pinyin)]
  IN
  IF S.pendingRequests[pinyin] # 0
  THEN \* lines 332-333
       [S EXCEPT !.calls[c].pc = "fetching",
                 !.calls[c].awaits = S.pendingRequests[pinyin]]
  ELSE IF Truthy(storedBase64)
  THEN \* lines 342-344, 366-375: the promise is settled when it is awaited
       IF base64ToArrayBufferThrows(storedBase64)
       THEN [S EXCEPT !.calls[c] = Reject(@, "InvalidCharacterError")]
       ELSE WithData(S, c, base64ToArrayBuffer(storedBase64),
                     Slice([NoArrayBuffer EXCEPT !.owner = c], c))
  ELSE \* lines 346-350, 366-369
       LET p == Len(S.promises) + 1
       IN  [S EXCEPT !.promises = Append(@,
                        [pinyin |-> pinyin, state |-> "fetch",
                         data |-> << >>, error |-> None, warned |-> FALSE]),
                     !.posts[pinyin] = @ + 1,
                     !.pendingRequests[pinyin] = p,
                     !.calls[c].pc = "fetching",
                     !.calls[c].awaits = p]

\* lines 383-417: playWithHtml5Audio(pinyin)
playWithHtml5Audio(S, c) ==
  LET url == S.audioUrlCache[S.calls[c].pinyin]
  IN  IF url # 0
      THEN [S EXCEPT !.calls[c] = StartPlayback(@, url)]
      ELSE fetchAudioData(S, c)

\* lines 431-447: playWithWebAudio(pinyin) from the cache lookup on
AfterResume(S, c) ==
  LET buffer == S.audioBufferCache[S.calls[c].pinyin]
  IN  IF buffer # NoBuffer
      THEN StartSource(S, c, buffer.duration)
      ELSE fetchAudioData(S, c)

\* a player that does not wait for the context to resume
playWithWebAudioNoWait(S, c, state) ==
  AfterResume([S EXCEPT !.audioCtx = getAudioContext(S.audioCtx, state)], c)

\* lines 424-429: playWithWebAudio(pinyin) up to `await ctx.resume()`
playWithWebAudio(S, c, state) ==
  LET ctx == getAudioContext(S.audioCtx, state)
  IN  IF ctx.state = "suspended"
      THEN [S EXCEPT !.audioCtx = [ctx EXCEPT !.resuming = TRUE],
                     !.calls[c].pc = "resuming",
                     !.calls[c].waited = TRUE]
      ELSE AfterResume([S EXCEPT !.audioCtx = ctx], c)

(* lines 452-465: playPinyinAudio(pinyin), the synchronous part of a call. *)
playPinyinAudioDual(pinyin, state) ==
  /\ Len(calls) < MaxCalls
  /\ LET c == Len(calls) + 1
         S == [DualState EXCEPT !.calls = Append(@, NewDualCall(pinyin))]
     IN  Commit(IF isIOS THEN playWithHtml5Audio(S, c)
                ELSE playWithWebAudio(S, c, state))
  /\ UNCHANGED << serverVars, decoderVars, uiVars, isIOS, isAudioUnlocked, unlockCalls >>

\* the calls c..Len(calls) suspended at line 428 continue, in call order
RECURSIVE ResumeFrom(_, _)
ResumeFrom(S, c) ==
  IF c > Len(S.calls) THEN S
  ELSE ResumeFrom(IF S.calls[c].pc = "resuming" THEN AfterResume(S, c) ELSE S,
                  c + 1)

(* ctx.resume() resolves: the context runs, the calls waiting at line 428  *)
(* continue.                                                               *)
ContextResumes ==
  /\ audioCtx.state = "suspended"
  /\ audioCtx.resuming
  /\ Commit(ResumeFrom([DualState EXCEPT !.audioCtx.state = "running",
                                         !.audioCtx.resuming = FALSE], 1))
  /\ UNCHANGED << serverVars, decoderVars, uiVars, isIOS, isAudioUnlocked, unlockCalls >>

\* the calls c..Len(calls) awaiting promise p (lines 333, 369) continue with
\* their copy of the buffer, the owner first
RECURSIVE DeliverFrom(_, _, _, _)
DeliverFrom(S, p, bytes, c) ==
  IF c > Len(S.calls) THEN S
  ELSE DeliverFrom(IF S.calls[c].pc = "fetching" /\ S.calls[c].awaits = p
                   THEN WithData(S, c, bytes,
                                 Slice([NoArrayBuffer EXCEPT !.promise = p],
                                       c))
                   ELSE S,
                   p, bytes, c + 1)

\* the raw-data promise p fulfils with `bytes`: line 374 deletes the pending
\* entry, then every awaiting call continues
RawFulfils(S, p, bytes) ==
  DeliverFrom([S EXCEPT !.promises[p].state = "fulfilled",
                        !.promises[p].data = bytes,
                        !.pendingRequests[S.promises[p].pinyin] = 0],
              p, bytes, 1)

\* the raw-data promise p rejects: line 374 deletes the pending entry, and
\* every awaiting call rethrows (lines 461-464)
RawRejects(S, p, error) ==
  [S EXCEPT !.promises[p].state = "rejected",
            !.promises[p].error = error,
            !.pendingRequests[S.promises[p].pinyin] = 0,
            !.calls = [c \in DOMAIN S.calls |->
                         IF S.calls[c].pc = "fetching" /\ S.calls[c].awaits = p
                         THEN Reject(S.calls[c], error) ELSE S.calls[c]]]

(* lines 346-352: fetch() settles. *)
RawFetchSettles(p, r) ==
  /\ promises[p].state = "fetch"
  /\ Commit(IF r = "NetworkError"
            THEN RawRejects(DualState, p, "NetworkError")
            ELSE IF r = "NotOk"
            THEN RawRejects(DualState, p, "Server error")
            ELSE [DualState EXCEPT !.promises[p].state = "json"])
  /\ UNCHANGED << serverVars, decoderVars, uiVars, isIOS, isAudioUnlocked, unlockCalls >>

(* lines 354-363: response.json() settles and the rest of the fetch body   *)
(* runs; `throws` says whether localStorage.setItem throws.                *)
RawJsonSettles(p, data, throws) ==
  /\ promises[p].state = "json"
  /\ throws => data.parsed /\ Truthy(data.audioData)
  /\ Commit(
       IF ~data.parsed
       THEN RawRejects(DualState, p, "SyntaxError")
       ELSE IF ~Truthy(data.audioData)
       THEN RawRejects(DualState, p, "No audio data received")
       ELSE LET S == [DualState EXCEPT
                        !.localStorage =
                           SetItem(StorageKey(promises[p].pinyin),
                                   data.audioData, throws),
                        !.promises[p].warned = throws]
            IN  IF base64ToArrayBufferThrows(data.audioData)
                THEN RawRejects(S, p, "InvalidCharacterError")
                ELSE RawFulfils(S, p, base64ToArrayBuffer(data.audioData)))
  /\ UNCHANGED << serverVars, decoderVars, uiVars, isIOS, isAudioUnlocked, unlockCalls >>

(* line 437: ctx.decodeAudioData(rawData) settles; on success lines        *)
(* 438-446 cache the buffer and start the source.                          *)
DecodeSettles(c, ok) ==
  /\ calls[c].pc = "decoding"
  /\ Commit(IF ok
            THEN LET buffer == [decodedBy |-> c,
                                duration |-> Len(calls[c].raw)]
                 IN  StartSource([DualState EXCEPT
                                    !.audioBufferCache[calls[c].pinyin] =
                                       buffer],
                                 c, buffer.duration)
            ELSE [DualState EXCEPT !.calls[c] = Reject(@, "EncodingError")])
  /\ UNCHANGED << serverVars, decoderVars, uiVars, isIOS, isAudioUnlocked, unlockCalls >>


(* lines 293-312: unlockAudio() of the dual-strategy client. *)
unlockAudioDual(state) ==
  /\ Len(unlockCalls) < MaxDualUnlocks
  /\ LET ctx == getAudioContext(audioCtx, state)
     IN  audioCtx' = IF ctx.state = "suspended"
                     THEN [ctx EXCEPT !.resuming = TRUE] ELSE ctx
  /\ unlockCalls' = Append(unlockCalls, [play |-> SilentPlay])
  /\ UNCHANGED << clientVars, serverVars, decoderVars, uiVars, isIOS, isAudioUnlocked,
                  audioBufferCache >>

DualNext ==
  \/ \E pinyin \in Keys, state \in ContextStates :
       playPinyinAudioDual(pinyin, state)
  \/ ContextResumes
  \/ \E p \in DOMAIN promises, r \in FetchResults : RawFetchSettles(p, r)
  \/ \E p \in DOMAIN promises, data \in JsonResults, throws \in BOOLEAN :
       RawJsonSettles(p, data, throws)
  \/ \E c \in DOMAIN calls, ok \in BOOLEAN : DecodeSettles(c, ok)
  \/ \E c \in DOMAIN calls, d \in MediaDurations : LoadedMetadata(c, d)
  \/ \E c \in DOMAIN calls : PlayResolves(c)
  \/ \E c \in DOMAIN calls : PlayRejects(c)
  \/ \E c \in DOMAIN calls : AudioError(c)
  \/ \E state \in ContextStates : unlockAudioDual(state)
  \/ \E u \in DOMAIN unlockCalls : SilentPlayResolves(u)
  \/ \E u \in DOMAIN unlockCalls : SilentPlayRejects(u)

\* a browser of either kind in which no audio object has been made
PlatformInit ==
  /\ isIOS \in BOOLEAN
  /\ isAudioUnlocked = FALSE
  /\ unlockCalls = << >>
  /\ audioCtx = NoContext
  /\ audioBufferCache = [k \in Keys |-> NoBuffer]

InitDual == ClientInit /\ ServerIdle /\ PlatformInit /\ DecoderIdle /\ UiIdle

\* unlockAudio alone, beside a client and a server that do nothing
InitUnlock == ClientIdle /\ ServerIdle /\ PlatformInit /\ DecoderIdle /\ UiIdle

SpecUnlock == InitUnlock /\ [][UnlockNext]_vars

SpecDual == InitDual /\ [][DualNext]_vars

(***************************************************************************)
(* decodeAudioData: unnamed/part_002 lines 56-94, called at line 152 with  *)
(* the Uint8Array that decode() built (byteOffset 0), 24000 Hz, 1 channel. *)
(***************************************************************************)
\* longest payload drawn byte by byte
MaxPcmBytes == 3

\* the byte values the drawn payloads are made of
PcmBytes == {0, 1, 128, 255}

\* the payload of the specification's example: 2501 bytes
OddPayload == [i \in 1..2501 |-> 0]

\* the payloads handed to the decoder
PcmPayloads ==
  UNION {[1..n -> PcmBytes] : n \in 0..MaxPcmBytes} \cup {OddPayload}

\* a decoder that views the bytes as they come
bufferToDecodeUnpadded(data) == data

\* lines 65-71: an odd-length input is copied into a zero-filled array one
\* byte longer, an even-length input is used as it is
bufferToDecode(data) ==
  IF Len(data) % 2 # 0 THEN data \o << 0 >> ELSE data

\* lines 74-78: element i of the Int16Array view (little-endian, signed)
Int16At(b, i) ==
  LET u == b[2 * i - 1] + 256 * b[2 * i]
  IN  IF u >= 32768 THEN u - 65536 ELSE u

dataInt16(b) == [i \in 1..(Len(b) \div 2) |-> Int16At(b, i)]

\* line 84: BaseAudioContext.createBuffer throws NotSupportedError unless
\* the channel count and the length in frames are at least 1
createBufferThrows(numChannels, frameCount) ==
  numChannels < 1 \/ frameCount < 1

\* lines 57-94: the outcome of decodeAudioData(data, ctx, sampleRate,
\* numChannels).  A sample of channelData is kept as the integer that line
\* 90 divides by 32768.
decodeAudioData(data, numChannels) ==
  LET decoded == bufferToDecode(data)
      samples == dataInt16(decoded)
      frameCount == Len(samples) \div numChannels
  IN  IF createBufferThrows(numChannels, frameCount)
      THEN [ status |-> "thrown", error |-> "NotSupportedError",
             decoded |-> decoded, channelData |-> << >> ]
      ELSE [ status |-> "returned", error |-> None, decoded |-> decoded,
             channelData |->
               [channel \in 1..numChannels |->
                  [i \in 1..frameCount |->
                     samples[(i - 1) * numChannels + channel]]] ]

(* line 152: decodeAudioData(audioBytes, ctx, 24000, 1) runs. *)
Decode ==
  /\ pcmDecoded.status = "none"
  /\ pcmDecoded' = decodeAudioData(pcmData, 1)
  /\ UNCHANGED << pcmData, clientVars, serverVars, platformVars, uiVars >>

DecoderNext == Decode

\* a payload has arrived and is about to be decoded
InitDecoder ==
  /\ pcmData \in PcmPayloads
  /\ pcmDecoded = NotDecoded
  /\ ClientIdle /\ ServerIdle /\ PlatformIdle /\ UiIdle

SpecDecoder == InitDecoder /\ [][DecoderNext]_vars

(***************************************************************************)
(* Properties of the client, checked under SpecClient.                     *)
(***************************************************************************)
Settled(p) == promises[p].state \in {"fulfilled", "rejected"}

\* a fetch for pinyin has been issued and has not settled
InFlight(pinyin) ==
  \E p \in DOMAIN promises : promises[p].pinyin = pinyin /\ ~Settled(p)

\* this step is the start of a playPinyinAudio(pinyin) call
Started(pinyin) ==
  /\ Len(calls') = Len(calls) + 1
  /\ calls'[Len(calls')].pinyin = pinyin

\* call c, past its await of promise p, holds what p settled with
SameOutcome(c, p) ==
  IF promises[p].state = "fulfilled"
  THEN calls[c].audioUrl = promises[p].url
  ELSE /\ calls[c].pc = "rejected"
       /\ calls[c].audioUrl = 0
       /\ calls[c].error = promises[p].error

C1_State ==
  /\ \A p, q \in DOMAIN promises :
       promises[p].pinyin = promises[q].pinyin /\ ~Settled(p) /\ ~Settled(q)
         => p = q
  /\ \A p \in DOMAIN promises :
       ~Settled(p) => pendingRequests[promises[p].pinyin] = p
  /\ \A k \in Keys : posts[k] <= 1 + Cardinality(
       {p \in DOMAIN promises : promises[p].pinyin = k /\ Settled(p)})
  /\ \A c \in DOMAIN calls :
       calls[c].awaits # 0 =>
         LET p == calls[c].awaits
         IN  /\ promises[p].pinyin = calls[c].pinyin
             /\ IF Awaiting(c, p) THEN ~Settled(p)
                ELSE Settled(p) /\ SameOutcome(c, p)

C1_Step ==
  \A k \in Keys :
    /\ InFlight(k) =>
         /\ posts'[k] = posts[k]
         /\ pendingRequests'[k] = pendingRequests[k] \/ ~InFlight(k)'
         /\ Started(k) =>
              /\ calls'[Len(calls')].awaits = pendingRequests[k]
              /\ pendingRequests' = pendingRequests
              /\ promises' = promises
    /\ ( /\ Started(k)
         /\ ~InFlight(k)
         /\ ~CacheHas(k)
         /\ ~Truthy(localStorage[StorageKey(k)]) )
         => posts'[k] = posts[k] + 1 /\ InFlight(k)'

\* C1: for a key in neither the memory cache nor localStorage, the calls
\* started while its fetch is in flight cause exactly one POST /api/tts and
\* all end with the outcome of that one fetch (the same URL or the same
\* error); the in-flight promise stays registered until it settles, and it
\* is registered in the step that issues the fetch.
C1_Dedup == [](C1_State) /\ [][C1_Step]_vars

\* two calls shared one fetch and hold the URL it produced
C1_Witness ==
  \E p \in DOMAIN promises, c1, c2 \in DOMAIN calls :
    /\ c1 # c2
    /\ calls[c1].awaits = p /\ calls[c2].awaits = p
    /\ promises[p].state = "fulfilled"
    /\ calls[c1].audioUrl = promises[p].url
    /\ calls[c2].audioUrl = promises[p].url
    /\ posts[promises[p].pinyin] = 1

C2_Step ==
  \A k \in Keys :
    ( /\ Started(k)
      /\ \E c \in DOMAIN calls :
           calls[c].pinyin = k /\ calls[c].pc = "resolved" )
      => LET new == calls'[Len(calls')]
         IN  /\ new.reads = << "audioUrlCache" >>
             /\ new.pc = "loading"
             /\ new.audioUrl = audioUrlCache[k]
             /\ posts' = posts
             /\ promises' = promises
             /\ \A c \in DOMAIN calls :
                  calls[c].pinyin = k /\ calls[c].pc = "resolved"
                    => new.audioUrl = calls[c].audioUrl

\* C2: once a call for k has resolved, a later call for k reads only the
\* memory cache, issues no request and plays the URL the earlier call played.
C2_CacheIdempotence == [][C2_Step]_vars

\* a call that went to the network has resolved, and another call for the
\* same key was served from the memory cache with the same URL
C2_Witness ==
  \E c1, c2 \in DOMAIN calls :
    /\ c1 < c2
    /\ calls[c1].pinyin = calls[c2].pinyin
    /\ calls[c1].pc = "resolved"
    /\ calls[c1].awaits # 0
    /\ calls[c2].reads = << "audioUrlCache" >>
    /\ calls[c2].audioUrl = calls[c1].audioUrl
    /\ posts[calls[c1].pinyin] = 1

\* the failures of the fetch that the resolver raises before it stores
FetchFailures == {"NetworkError", "Server error", "No audio data received"}

\* the last fetch issued for pinyin failed
FailedLast(pinyin) ==
  \E p \in DOMAIN promises :
    /\ promises[p].pinyin = pinyin
    /\ promises[p].state = "rejected"
    /\ promises[p].error \in FetchFailures
    /\ \A q \in DOMAIN promises : q > p => promises[q].pinyin # pinyin

C3_Step ==
  /\ \A p \in DOMAIN promises :
       ( /\ ~Settled(p)
         /\ promises'[p].state = "rejected"
         /\ promises'[p].error \in FetchFailures )
         => LET k == promises[p].pinyin
            IN  /\ \A c \in DOMAIN calls :
                     Awaiting(c, p) =>
                       /\ calls'[c].pc = "rejected"
                       /\ calls'[c].error = promises'[p].error
                       /\ calls'[c].audioUrl = 0
                /\ audioUrlCache' = audioUrlCache
                /\ audioUrlCache'[k] = 0
                /\ localStorage' = localStorage
                /\ ~Truthy(localStorage'[StorageKey(k)])
                /\ pendingRequests'[k] = 0
  /\ \A k \in Keys :
       Started(k) /\ FailedLast(k) => posts'[k] = posts[k] + 1

\* C3: when the fetch for k fails (network error, non-OK status, no
\* audioData), every call awaiting it is rejected with that error, neither
\* the memory cache nor localStorage gains an entry for k, and the next call
\* for k issues a new request.
C3_FailuresNotCached == [][C3_Step]_vars

\* the first fetch failed and rejected its caller; the next call for the key
\* issued a second request
C3_Witness ==
  \E p, q \in DOMAIN promises, c \in DOMAIN calls :
    /\ p < q
    /\ promises[p].pinyin = promises[q].pinyin
    /\ promises[p].state = "rejected"
    /\ promises[p].error \in FetchFailures
    /\ calls[c].awaits = p
    /\ calls[c].pc = "rejected"
    /\ calls[c].error = promises[p].error
    /\ posts[promises[p].pinyin] = 2

\* C4: pendingRequests holds k exactly while a fetch for k is in flight, and
\* then it holds that fetch's promise; with no fetch in flight it is empty.
C4_PendingLifecycle ==
  \A k \in Keys :
    /\ pendingRequests[k] # 0 <=> InFlight(k)
    /\ pendingRequests[k] # 0 =>
         /\ pendingRequests[k] \in DOMAIN promises
         /\ promises[pendingRequests[k]].pinyin = k
         /\ ~Settled(pendingRequests[k])

\* a fetch that two calls awaited failed, and its entry is gone
C4_Witness ==
  \E p \in DOMAIN promises, c1, c2 \in DOMAIN calls :
    /\ c1 # c2
    /\ calls[c1].awaits = p /\ calls[c2].awaits = p
    /\ promises[p].state = "rejected"
    /\ pendingRequests[promises[p].pinyin] = 0

\* C5: a payload whose base64 decoding fails is cached in no client layer:
\* localStorage never holds a value that decodeBase64 rejects.
C5_MalformedNotCached ==
  \A k \in Keys :
    Truthy(localStorage[StorageKey(k)])
      => ~decodeBase64Throws(localStorage[StorageKey(k)])

\* C6: a fetch during which localStorage.setItem threw still fulfils (unless
\* the payload itself does not decode): the write error reaches no caller,
\* the memory cache holds the URL and the pending entry is gone.
C6_BestEffortStore ==
  \A p \in DOMAIN promises :
    promises[p].warned =>
      /\ \/ promises[p].state = "fulfilled"
         \/ /\ promises[p].state = "rejected"
            /\ promises[p].error = "InvalidCharacterError"
      /\ promises[p].state = "fulfilled" =>
           /\ audioUrlCache[promises[p].pinyin] = promises[p].url
           /\ pendingRequests[promises[p].pinyin] # p
           /\ \A c \in DOMAIN calls :
                calls[c].awaits = p =>
                  /\ calls[c].audioUrl = promises[p].url
                  /\ calls[c].error \in {None, "NotAllowedError", "MediaError"}

\* setItem threw, the call resolved all the same and nothing was stored
C6_Witness ==
  \E p \in DOMAIN promises, c \in DOMAIN calls :
    /\ promises[p].warned
    /\ promises[p].state = "fulfilled"
    /\ calls[c].awaits = p
    /\ calls[c].pc = "resolved"
    /\ audioUrlCache[promises[p].pinyin] = promises[p].url
    /\ localStorage[StorageKey(promises[p].pinyin)] = Undefined

C7_Step ==
  \A k \in Keys :
    ( /\ Started(k)
      /\ ~CacheHas(k)
      /\ ~PendingHas(k)
      /\ Truthy(localStorage[StorageKey(k)]) )
      => /\ posts' = posts
         /\ promises' = promises
         /\ pendingRequests' = pendingRequests
         /\ audioUrlCache'[k] # 0
         /\ blobUrls'[audioUrlCache'[k]]
              = decodeBase64(localStorage[StorageKey(k)])

\* C7: a call for a key that is in neither the memory cache nor the pending
\* table while localStorage holds a value for it issues no request,
\* registers no pending entry and puts the stored value's audio in the
\* memory cache.
C7_LocalHit == [][C7_Step]_vars

(***************************************************************************)
(* Properties of the /api/tts handlers, checked under SpecServer.          *)
(***************************************************************************)
\* C8: a POST without text is answered 400 'Text is required' with no cache
\* lookup, no upstream fetch and no cache write.
C8_TextRequired ==
  \A r \in DOMAIN requests :
    requests[r].method = "POST" /\ ~Truthy(requests[r].text)
      => /\ requests[r].pc = "done"
         /\ requests[r].status = 400
         /\ requests[r].reply = "Text is required"
         /\ requests[r].responses = 1
         /\ requests[r].lookups = 0
         /\ requests[r].fetched = << >>
         /\ requests[r].writes = 0

\* one POST without a text field and one with an empty text, both refused
C8_Witness ==
  \E r1, r2 \in DOMAIN requests :
    /\ requests[r1].method = "POST" /\ requests[r1].text = Undefined
    /\ requests[r1].status = 400
    /\ requests[r2].method = "POST" /\ requests[r2].text = EmptyString
    /\ requests[r2].status = 400

\* request r ends this step as a cache hit carrying `payload`
Hit(r, payload) ==
  /\ requests'[r].pc = "done"
  /\ requests'[r].status = 200
  /\ requests'[r].audioData = payload
  /\ requests'[r].responses = 1
  /\ requests'[r].fetched = << >>
  /\ requests'[r].writes = 0
  /\ tts_cache' = tts_cache
  /\ blobStore' = blobStore

C9_Step ==
  \A r \in DOMAIN requests :
    /\ ( /\ variant = "postgres"
         /\ requests[r].pc = "select"
         /\ requests'[r].pc \notin {"select", "create"}
         /\ \E row \in tts_cache : row.text = requests[r].text )
         => \E row \in tts_cache :
              row.text = requests[r].text /\ Hit(r, row.audio_data)
    /\ ( /\ variant = "blob"
         /\ requests[r].pc = "read"
         /\ requests'[r].pc = "done" )
         => \E b \in blobStore :
              /\ b.pathname = Filename(requests[r].text)
              /\ Hit(r, ToBase64(b.data))

\* C9: a lookup that finds an entry for the request's key ends the request
\* with 200 and exactly the stored payload, without an upstream fetch or a
\* cache write.
C9_HitShortCircuits == [][C9_Step]_vars

\* a request answered 200 from the cache filled by an earlier request
C9_Witness ==
  \E r1, r2 \in DOMAIN requests :
    /\ r1 # r2
    /\ requests[r1].status = 200 /\ requests[r1].writes = 1
    /\ requests[r2].status = 200 /\ requests[r2].fetched = << >>
    /\ requests[r2].audioData = requests[r1].audioData

\* the base64 length of the smallest body that passes the size check
MinBase64Length == 4 * ((MinAudioBytes + 2) \div 3)

\* C10: a body shorter than 100 bytes is answered 500 'Audio file invalid or
\* empty' and nothing of it is written; a body of 100 bytes or more passes
\* the size check; the cache holds no payload shorter than 100 bytes.
C10_CorruptionRejected ==
  /\ \A r \in DOMAIN requests :
       requests[r].byteLength # -1 =>
         IF requests[r].byteLength < MinAudioBytes
         THEN /\ requests[r].pc = "done"
              /\ requests[r].status = 500
              /\ requests[r].reply = "Audio file invalid or empty"
              /\ requests[r].audioData = Undefined
              /\ requests[r].writes = 0
         ELSE /\ requests[r].pc \in {"insert", "put", "done"}
              /\ requests[r].pc = "done" => requests[r].status = 200
              /\ Len(requests[r].audioData) >= MinBase64Length
              /\ requests[r].writes = 1
  /\ \A row \in tts_cache : Len(row.audio_data) >= MinBase64Length
  /\ \A b \in blobStore : Len(b.data) >= MinAudioBytes

\* a 50-byte body was refused and a 100-byte body was served
C10_Witness ==
  \E r1, r2 \in DOMAIN requests :
    /\ requests[r1].byteLength = 50 /\ requests[r1].status = 500
    /\ requests[r2].byteLength = MinAudioBytes /\ requests[r2].status = 200

\* this step is the last upstream fetch of request r settling with `res`
LastFetchSettles(r, res) ==
  \/ PgFetchSettles(r, res) /\ (res.thrown \/ res.status # 404)
  \/ PgFallbackSettles(r, res)
  \/ BlobFetchSettles(r, res)

\* request r is answered in this step with an error and nothing is written
Refused(r, status, reply) ==
  /\ requests'[r].pc = "done"
  /\ requests'[r].status = status
  /\ requests'[r].reply = reply
  /\ requests'[r].responses = 1
  /\ requests'[r].audioData = Undefined
  /\ requests'[r].byteLength = -1
  /\ requests'[r].writes = 0
  /\ tts_cache' = tts_cache
  /\ blobStore' = blobStore

\* a request that was answered stays as it is
Answered(r) == requests[r].pc = "done" => requests'[r] = requests[r]

HtmlReply == "Audio source returned HTML instead of Audio"

C11_Step ==
  \A r \in DOMAIN requests :
    /\ Answered(r)
    /\ \A res \in UpstreamResults :
         ( /\ ~res.thrown
           /\ IsOk(res.status)
           /\ IsHtml(res.contentType)
           /\ LastFetchSettles(r, res) )
           => Refused(r, 404, HtmlReply)

\* C11: when the upstream source answers 200 with a Content-Type containing
\* text/html, the handler responds 404, never reads the body and writes
\* nothing to the durable cache.
C11_ContentTypeGuard == [][C11_Step]_vars

\* an HTML answer was refused: 404, body unread, stores untouched
C11_Witness ==
  \E r \in DOMAIN requests :
    /\ requests[r].reply = HtmlReply
    /\ requests[r].status = 404
    /\ requests[r].fetched # << >>
    /\ requests[r].byteLength = -1
    /\ requests[r].writes = 0
    /\ tts_cache = {} /\ blobStore = {}

NotFoundReply == "Audio source not found"

C12_Step ==
  \A r \in DOMAIN requests, res \in UpstreamResults :
    /\ ( ~res.thrown /\ ~IsOk(res.status) /\ LastFetchSettles(r, res) )
         => Refused(r, 404, NotFoundReply)
    /\ ( res.status = 404 /\ PgFetchSettles(r, res) )
         => /\ requests'[r].pc = "fallback"
            /\ requests'[r].responses = 0
            /\ requests'[r].fetched
                 = << requests[r].text, requests[r].text \o << "1" >> >>
            /\ tts_cache' = tts_cache

\* C12: when the last upstream fetch of a request (the tone-1 fallback after
\* a first 404 in the Postgres-backed handler, the only fetch otherwise)
\* returns a non-OK status, the handler responds 404 with an error body and
\* writes nothing to the durable cache.
C12_UpstreamNotFound == [][C12_Step]_vars

\* the first fetch and the tone-1 fallback both failed: 404, nothing written
C12_Witness ==
  \E r \in DOMAIN requests :
    /\ requests[r].reply = NotFoundReply
    /\ requests[r].status = 404
    /\ Len(requests[r].fetched) = 2
    /\ requests[r].writes = 0
    /\ tts_cache = {}

\* request r obtained a payload from upstream and its cache write stored it
Persisted(r) ==
  /\ requests[r].writes = 1
  /\ \/ \E row \in tts_cache :
          /\ row.text = Normalize(requests[r].raw)
          /\ row.audio_data = requests[r].audioData
     \/ \E b \in blobStore :
          /\ b.pathname = Filename(requests[r].raw)
          /\ b.data = SavedBuffer[requests[r].audioData]

C13_State ==
  /\ \A row \in tts_cache :
       \E r \in DOMAIN requests :
         /\ requests[r].writes = 1
         /\ row.text = requests[r].text
         /\ row.audio_data = requests[r].audioData
         /\ row \in SelectRows(Normalize(requests[r].raw))
  /\ \A b \in blobStore :
       \E r \in DOMAIN requests :
         /\ requests[r].writes = 1
         /\ b.pathname = Filename(requests[r].raw)
         /\ ToBase64(b.data) = requests[r].audioData

C13_Step ==
  \A q, r \in DOMAIN requests :
    ( requests[r].raw = requests[q].raw /\ Persisted(r) ) =>
      /\ PgSelectSettles(q, FALSE) =>
           /\ requests'[q].status = 200
           /\ requests'[q].audioData = requests[r].audioData
           /\ requests'[q].fetched = << >>
      /\ \A blobs \in SUBSET blobStore :
           BlobListSettles(q, FALSE, blobs) => requests'[q].pc = "read"
      /\ BlobReadSettles(q, FALSE) =>
           /\ requests'[q].status = 200
           /\ requests'[q].audioData = requests[r].audioData
           /\ requests'[q].fetched = << >>

\* C13: every cache entry lies under the key that a lookup for its writer's
\* request text uses and decodes to the payload its writer sent; when a
\* request's lookup succeeds while the cache holds the payload persisted for
\* the same request text, the request is a hit and returns exactly that
\* payload.
C13_RoundTrip == [](C13_State) /\ [][C13_Step]_vars

\* the Blob-backed handler stored a 101-byte payload for 'lü' and a second
\* request for 'lü' got the identical base64 string back from the store
C13_Witness ==
  \E q, r \in DOMAIN requests :
    /\ q # r
    /\ variant = "blob"
    /\ requests[r].raw = << "l", "ü" >>
    /\ requests[q].raw = requests[r].raw
    /\ requests[r].byteLength = MinAudioBytes + 1
    /\ requests[r].status = 200
    /\ Persisted(r)
    /\ requests[q].status = 200
    /\ requests[q].fetched = << >>
    /\ requests[q].audioData = requests[r].audioData

\* two texts that differ at most by 'ü' versus 'v'
SameSpelling(t1, t2) ==
  /\ Len(t1) = Len(t2)
  /\ \A i \in 1..Len(t1) : t1[i] = t2[i] \/ {t1[i], t2[i]} = {"ü", "v"}

\* the table holds the payload request r fetched, under some spelling of
\* r's text
PgPersisted(r) ==
  /\ requests[r].writes = 1
  /\ \E row \in tts_cache :
       /\ SameSpelling(row.text, requests[r].raw)
       /\ row.audio_data = requests[r].audioData

C14_State ==
  variant = "postgres" =>
    /\ \A row \in tts_cache : \A i \in 1..Len(row.text) : row.text[i] # "ü"
    /\ \A row1, row2 \in tts_cache :
         SameSpelling(row1.text, row2.text) => row1 = row2
    /\ \A r \in DOMAIN requests :
         requests[r].lookups = 1 =>
           /\ SameSpelling(requests[r].text, requests[r].raw)
           /\ \A i \in 1..Len(requests[r].text) : requests[r].text[i] # "ü"

C14_Step ==
  \A q, r \in DOMAIN requests :
    ( /\ variant = "postgres"
      /\ SameSpelling(requests[q].raw, requests[r].raw)
      /\ PgPersisted(r)
      /\ PgSelectSettles(q, FALSE) )
      => /\ requests'[q].pc = "done"
         /\ requests'[q].status = 200
         /\ requests'[q].audioData = requests[r].audioData
         /\ requests'[q].fetched = << >>
         /\ requests'[q].writes = 0
         /\ tts_cache' = tts_cache

\* C14: the Postgres-backed handler looks up and stores under the text with
\* every 'ü' replaced by 'v', so the table holds one row per canonical key;
\* once a request for one spelling has stored its payload, a request for the
\* other spelling whose SELECT succeeds is a hit that returns the same audio,
\* fetches nothing and writes nothing.
C14_PgNormalization == [](C14_State) /\ [][C14_Step]_vars

\* 'lü' was fetched and stored; 'lv' was then served from that row
C14_Witness ==
  \E q, r \in DOMAIN requests :
    /\ variant = "postgres"
    /\ requests[r].raw = << "l", "ü" >>
    /\ requests[q].raw = << "l", "v" >>
    /\ requests[r].status = 200
    /\ PgPersisted(r)
    /\ requests[r].fetched = << << "l", "v" >> >>
    /\ requests[q].status = 200
    /\ requests[q].fetched = << >>
    /\ requests[q].audioData = requests[r].audioData
    /\ Cardinality(tts_cache) = 1

\* the Blob store holds the payload request r fetched, under r's file name
BlobPersisted(r) ==
  /\ requests[r].writes = 1
  /\ \E b \in blobStore :
       /\ b.pathname = Filename(requests[r].raw)
       /\ b.data = SavedBuffer[requests[r].audioData]

C15_Step ==
  \A q, r \in DOMAIN requests :
    ( /\ variant = "blob"
      /\ SameSpelling(requests[q].raw, requests[r].raw)
      /\ BlobPersisted(r) )
      => /\ \A blobs \in SUBSET blobStore :
              BlobListSettles(q, FALSE, blobs) =>
                /\ requests'[q].pc = "read"
                /\ requests'[q].fetched = << >>
         /\ \A putError \in BOOLEAN :
              BlobPutSettles(q, putError) =>
                Cardinality(blobStore') = Cardinality(blobStore)

\* C15: in the Blob-backed handler, once a request for one spelling has
\* stored its payload, a request for the other spelling ('ü' versus 'v')
\* whose list() succeeds finds that entry, fetches nothing from upstream and
\* creates no second cache entry.
C15_BlobNormalization == [][C15_Step]_vars

\* request r is answered in this step with the payload it fetched
Served(r) ==
  /\ requests'[r].pc = "done"
  /\ requests'[r].status = 200
  /\ requests'[r].responses = 1
  /\ requests'[r].audioData = requests[r].audioData
  /\ requests[r].audioData = Base64Audio[Body(requests[r].byteLength,
                                              IF requests[r].byteLength
                                                   = MinAudioBytes
                                              THEN 0 ELSE 7)]

C16_Step ==
  \A r \in DOMAIN requests :
    /\ PgInsertSettles(r, TRUE) => Served(r) /\ tts_cache' = tts_cache
    /\ ( ~tableExists /\ PgInsertSettles(r, FALSE) )
         => Served(r) /\ tts_cache' = tts_cache
    /\ BlobPutSettles(r, TRUE) => Served(r) /\ blobStore' = blobStore

\* C16: when the cache write fails (the INSERT throws, the table is missing,
\* put() throws) after a valid upstream payload was obtained, nothing is
\* stored and the handler still responds 200 with that payload.
C16_WriteFailureNonFatal == [][C16_Step]_vars

\* a request fetched a valid body, its write failed, and it was answered 200
C16_Witness ==
  \E r \in DOMAIN requests :
    /\ requests[r].byteLength >= MinAudioBytes
    /\ requests[r].writes = 1
    /\ requests[r].pc = "done"
    /\ requests[r].status = 200
    /\ Truthy(requests[r].audioData)
    /\ tts_cache = {} /\ blobStore = {}

\* request r goes on in this step to its first upstream fetch, unanswered
Missed(r) ==
  /\ requests'[r].pc = "fetch"
  /\ requests'[r].fetched = << Normalize(requests[r].raw) >>
  /\ requests'[r].responses = 0
  /\ requests'[r].status = 0

C17_State ==
  \A r \in DOMAIN requests :
    requests[r].status \in {404, 500} => requests[r].fetched # << >>

C17_Step ==
  \A r \in DOMAIN requests :
    /\ ( PgSelectSettles(r, TRUE) \/ (~tableExists /\ PgSelectSettles(r, FALSE)) )
         => /\ requests'[r].pc = "create"
            /\ requests'[r].responses = 0
            /\ requests'[r].status = 0
    /\ \A createError \in BOOLEAN : PgCreateSettles(r, createError) => Missed(r)
    /\ \A blobs \in SUBSET blobStore :
         BlobListSettles(r, TRUE, blobs) => Missed(r)
    /\ BlobReadSettles(r, TRUE) => Missed(r)

\* C17: a throwing SELECT makes the Postgres-backed handler run CREATE TABLE
\* IF NOT EXISTS and, whatever that gives, go on to the upstream fetch; a
\* throwing list() or blob read makes the Blob-backed handler go on to the
\* upstream fetch; no 404 or 500 is sent before the upstream was asked.
C17_ReadFailureIsMiss == [](C17_State) /\ [][C17_Step]_vars

\* the table is missing and could not be created, and the request was still
\* answered 200 from upstream
C17_Witness ==
  \E r \in DOMAIN requests :
    /\ variant = "postgres"
    /\ ~tableExists
    /\ requests[r].lookups = 1
    /\ requests[r].fetched = << requests[r].text >>
    /\ requests[r].status = 200
    /\ requests[r].byteLength >= MinAudioBytes

\* the number of bytes a base64 payload stands for
DecodedLength(audioData) ==
  IF audioData \in DOMAIN SavedBuffer
  THEN Len(SavedBuffer[audioData])
  ELSE Len(BufferFromBase64(audioData))

\* C18: every 200 response carries an audioData payload of at least 100
\* bytes, whether it comes from the durable cache or from upstream, and the
\* cache holds only payloads of at least 100 bytes.
C18_OnlyValidatedAudio ==
  /\ \A r \in DOMAIN requests :
       requests[r].status = 200 =>
         /\ requests[r].pc = "done"
         /\ Truthy(requests[r].audioData)
         /\ DecodedLength(requests[r].audioData) >= MinAudioBytes
  /\ \A row \in tts_cache : DecodedLength(row.audio_data) >= MinAudioBytes
  /\ \A b \in blobStore : Len(b.data) >= MinAudioBytes

\* a 100-byte payload was served from upstream and then again from the cache
C18_Witness ==
  \E q, r \in DOMAIN requests :
    /\ requests[r].status = 200
    /\ requests[r].byteLength = MinAudioBytes
    /\ requests[q].status = 200
    /\ requests[q].fetched = << >>
    /\ DecodedLength(requests[q].audioData) = MinAudioBytes

Statuses == {200, 400, 404, 405, 500}

Thrown == [thrown |-> TRUE, status |-> 0, contentType |-> None]

C19_State ==
  \A r \in DOMAIN requests :
    /\ requests[r].responses <= 1
    /\ requests[r].pc = "done" <=> requests[r].responses = 1
    /\ IF requests[r].pc = "done"
       THEN requests[r].status \in Statuses
       ELSE /\ requests[r].status = 0
            /\ ENABLED (ServerNext /\ requests'[r] # requests[r])

C19_Step ==
  \A r \in DOMAIN requests :
    /\ Answered(r)
    /\ requests'[r].responses \in {requests[r].responses, 1}
    /\ ( \/ PgFetchSettles(r, Thrown)
         \/ PgFallbackSettles(r, Thrown)
         \/ BlobFetchSettles(r, Thrown)
         \/ PgBodySettles(r, ReadError)
         \/ BlobBodySettles(r, ReadError) )
         => Refused(r, 500, "Internal Server Error")

\* C19: every request gets exactly one response, with status 200, 400, 404,
\* 405 or 500: an answered request is never answered again, an unanswered one
\* always has a step that takes it further, and a thrown upstream fetch or
\* body read is answered 500 'Internal Server Error'.
C19_ExactlyOneResponse == [](C19_State) /\ [][C19_Step]_vars

\* a GET was answered 405 and a POST whose upstream fetch threw was answered
\* 500, each once
C19_Witness ==
  \E r1, r2 \in DOMAIN requests :
    /\ requests[r1].method = "GET"
    /\ requests[r1].status = 405
    /\ requests[r1].responses = 1
    /\ requests[r2].reply = "Internal Server Error"
    /\ requests[r2].status = 500
    /\ requests[r2].fetched # << >>
    /\ requests[r2].responses = 1

C20_State ==
  \A row1, row2 \in tts_cache : row1.text = row2.text => row1 = row2

C20_Step ==
  /\ tts_cache \subseteq tts_cache'
  /\ \A r \in DOMAIN requests :
       ( tableExists /\ PgInsertSettles(r, FALSE) ) =>
         /\ IF \E row \in tts_cache : row.text = requests[r].text
            THEN tts_cache' = tts_cache
            ELSE tts_cache' = tts_cache \cup
                   {[text |-> requests[r].text,
                     audio_data |-> requests[r].audioData]}
         /\ requests'[r].status = 200
         /\ requests'[r].audioData = requests[r].audioData

\* C20: the table holds at most one row per key and a stored row is never
\* changed or removed: the first INSERT for a key that succeeds creates the
\* row, a later INSERT for that key leaves the table as it is, and the
\* request that attempted it is still answered 200 with its own payload.
C20_CreateOrIgnore == [](C20_State) /\ [][C20_Step]_vars

\* two requests for the same uncached key fetched different payloads; both
\* were answered 200 and the table holds one row, with the first payload
C20_Witness ==
  \E r1, r2 \in DOMAIN requests :
    /\ requests[r1].text = requests[r2].text
    /\ requests[r1].writes = 1 /\ requests[r2].writes = 1
    /\ requests[r1].status = 200 /\ requests[r2].status = 200
    /\ requests[r1].audioData # requests[r2].audioData
    /\ tts_cache = {[text |-> requests[r1].text,
                     audio_data |-> requests[r1].audioData]}

C21_State ==
  \A r \in DOMAIN requests :
    requests[r].method # "POST" =>
      /\ requests[r].pc = "done"
      /\ requests[r].status = 405
      /\ requests[r].reply = "Method Not Allowed"
      /\ requests[r].responses = 1
      /\ requests[r].raw = Undefined
      /\ requests[r].lookups = 0
      /\ requests[r].fetched = << >>
      /\ requests[r].writes = 0

C21_Step ==
  \A body \in Bodies :
    ( PgHandler("GET", body) \/ BlobHandler("GET", body) ) =>
      /\ requests'[Len(requests')]
           = RespondError(NewRequest("GET"), 405, "Method Not Allowed")
      /\ tts_cache' = tts_cache
      /\ blobStore' = blobStore

\* C21: a request whose method is not POST is answered 405 'Method Not
\* Allowed' whatever its body, which is not read, with no cache lookup, no
\* upstream fetch and no cache write.
C21_MethodNotAllowed == [](C21_State) /\ [][C21_Step]_vars

\* the Blob-backed handler refused a GET
C21_Witness ==
  \E r \in DOMAIN requests :
    /\ variant = "blob"
    /\ requests[r].method = "GET"
    /\ requests[r].status = 405
    /\ requests[r].reply = "Method Not Allowed"
    /\ requests[r].lookups = 0

(***************************************************************************)
(* Properties of the composed system, checked under SpecEndToEnd.          *)
(***************************************************************************)
\* the fetches issued for pinyin
PromisesFor(pinyin) ==
  {p \in DOMAIN promises : promises[p].pinyin = pinyin}

\* request r is the only one the server received for its text
OnlyRequest(r) ==
  \A r2 \in DOMAIN requests : requests[r2].text = requests[r].text => r2 = r

C22_State ==
  /\ \A k \in Keys : posts[k] = Cardinality(PromisesFor(k))
  /\ \A p \in DOMAIN promises : Cardinality(RequestsOf(p)) <= 1
  /\ \A r \in DOMAIN requests :
       /\ requests[r].conn \in DOMAIN promises
       /\ requests[r].method = "POST"
       /\ requests[r].raw = PinyinChars[promises[requests[r].conn].pinyin]
       /\ ( OnlyRequest(r) /\ requests[r].status = 200 ) =>
            /\ requests[r].lookups = 1
            /\ Len(requests[r].fetched) \in {1, 2}
            /\ requests[r].byteLength >= MinAudioBytes
            /\ requests[r].writes = 1
  /\ \A c \in DOMAIN calls :
       ( calls[c].awaits # 0 /\ calls[c].audioUrl # 0 ) =>
         \E r \in RequestsOf(calls[c].awaits) :
           /\ requests[r].status = 200
           /\ blobUrls[calls[c].audioUrl] \in DOMAIN CachedBase64
           /\ CachedBase64[blobUrls[calls[c].audioUrl]] = requests[r].audioData
           /\ requests[r].byteLength # -1 =>
                Len(blobUrls[calls[c].audioUrl]) = requests[r].byteLength

C22_Step ==
  \A k \in Keys :
    ( /\ Started(k)
      /\ \E c \in DOMAIN calls :
           calls[c].pinyin = k /\ calls[c].pc = "resolved" )
      => /\ calls'[Len(calls')].reads = << "audioUrlCache" >>
         /\ calls'[Len(calls')].audioUrl = audioUrlCache[k]
         /\ calls'[Len(calls')].pc = "loading"
         /\ posts' = posts
         /\ promises' = promises
         /\ requests' = requests
         /\ tts_cache' = tts_cache
         /\ blobStore' = blobStore

\* C22: with client and server composed and all caches empty at the start,
\* every POST the client issues becomes at most one server request carrying
\* the call's key; the only request for a key that is answered 200 made one
\* cache lookup, missed, read one valid upstream body and attempted one
\* persist; a call that got its audio over the network plays exactly the
\* bytes the handler sent; and a call for a key that an earlier call already
\* played reads the memory cache only, with no POST and no server change.
C22_EndToEnd == [](C22_State) /\ [][C22_Step]_vars

\* the scenario's end: two calls for 'ma' resolved, one POST, one request
\* that missed, fetched once and stored its row; the second call was served
\* from the memory cache
C22_Witness ==
  /\ Len(calls) = 2
  /\ calls[1].pinyin = "ma" /\ calls[2].pinyin = "ma"
  /\ calls[1].pc = "resolved" /\ calls[2].pc = "resolved"
  /\ calls[1].awaits = 1
  /\ calls[2].reads = << "audioUrlCache" >>
  /\ calls[2].audioUrl = calls[1].audioUrl
  /\ posts["ma"] = 1
  /\ Len(requests) = 1
  /\ variant = "postgres"
  /\ requests[1].lookups = 1
  /\ requests[1].fetched = << << "m", "a" >> >>
  /\ requests[1].writes = 1
  /\ requests[1].status = 200
  /\ tts_cache = {[text |-> << "m", "a" >>,
                   audio_data |-> requests[1].audioData]}
  /\ Len(blobUrls[calls[1].audioUrl]) = requests[1].byteLength

(***************************************************************************)
(* Further properties of the client, checked under SpecClient.             *)
(***************************************************************************)
\* the errors with which resolving the audio of a call fails
ResolveErrors ==
  { "NetworkError", "Server error", "SyntaxError", "No audio data received",
    "InvalidCharacterError" }

\* resolving the audio of call c failed: the fetch it awaited was rejected,
\* or the stored value it read did not decode
ResolveFailed(c) ==
  \/ calls[c].awaits # 0 /\ promises[calls[c].awaits].state = "rejected"
  \/ calls[c].awaits = 0 /\ calls[c].error = "InvalidCharacterError"

C23_State ==
  \A c \in DOMAIN calls :
    /\ ResolveFailed(c) =>
         /\ calls[c].pc = "rejected"
         /\ calls[c].error \in ResolveErrors
         /\ calls[c].audioUrl = 0
         /\ calls[c].duration = 0
    /\ calls[c].pc \in {"loading", "starting", "resolved"} =>
         /\ calls[c].audioUrl \in DOMAIN blobUrls
         /\ calls[c].audioUrl = audioUrlCache[calls[c].pinyin]

C23_Step ==
  \A c \in DOMAIN calls :
    calls[c].pc = "rejected" => calls'[c] = calls[c]

\* C23: when resolving the audio of a call fails (network error, error
\* status, unparsable, missing or malformed payload, malformed stored value)
\* the call rejects with that error and no Audio element is ever built for
\* it; an element is built only for a URL of a decoded blob.
C23_ErrorPolicy == [](C23_State) /\ [][C23_Step]_vars

\* a malformed payload rejected both its caller and a joined caller, and no
\* element was built for either
C23_Witness ==
  \E c1, c2 \in DOMAIN calls :
    /\ c1 # c2
    /\ calls[c1].awaits # 0
    /\ calls[c2].awaits = calls[c1].awaits
    /\ promises[calls[c1].awaits].error = "InvalidCharacterError"
    /\ calls[c1].pc = "rejected" /\ calls[c2].pc = "rejected"
    /\ calls[c1].audioUrl = 0 /\ calls[c2].audioUrl = 0

\* the calls that issued a fetch: they read all three layers and await
\* the promise they created
Owners(p) ==
  {c \in DOMAIN calls : calls[c].awaits = p /\ Len(calls[c].reads) = 3}

C24_State ==
  /\ \A p \in DOMAIN promises : Cardinality(Owners(p)) = 1
  /\ \A k \in Keys :
       posts[k] = Cardinality({p \in DOMAIN promises : promises[p].pinyin = k})
  /\ \A k \in Keys :
       posts[k] <= Cardinality({c \in DOMAIN calls : calls[c].pinyin = k})

C24_Step ==
  \A k \in Keys :
    posts'[k] # posts[k] =>
      /\ Started(k)
      /\ posts'[k] = posts[k] + 1
      /\ Len(promises') = Len(promises) + 1
      /\ calls'[Len(calls')].awaits = Len(promises')

\* C24: a request is issued only in the step in which a caller invokes
\* playPinyinAudio, one per call at most; no step that settles a fetch,
\* successfully or not, issues another one.
C24_NoRetry == [](C24_State) /\ [][C24_Step]_vars

\* two calls failed, one after the other, each with its own single request
C24_Witness ==
  /\ Len(calls) = 2
  /\ calls[1].pinyin = calls[2].pinyin
  /\ calls[1].pc = "rejected" /\ calls[1].error = "NetworkError"
  /\ calls[2].pc = "rejected" /\ calls[2].error = "Server error"
  /\ calls[1].awaits = 1 /\ calls[2].awaits = 2
  /\ posts[calls[1].pinyin] = 2

(***************************************************************************)
(* Properties of the dual-strategy client, checked under SpecDual.         *)
(***************************************************************************)
\* the calls made for key k
CallsFor(k) == {c \in DOMAIN calls : calls[c].pinyin = k}

\* the first call for key k has been made and has not settled
FirstUnsettled(k) ==
  /\ CallsFor(k) # {}
  /\ LET first == CHOOSE c \in CallsFor(k) : \A d \in CallsFor(k) : c <= d
     IN  calls[first].pc \notin {"resolved", "rejected"}

(* C25: under both playback strategies, the calls for a key k that start   *)
(* before the first call for k has settled share one network request: no   *)
(* second POST for k is issued while the first call is unsettled, also     *)
(* when localStorage.setItem threw and also while the first call decodes.  *)
C25_SingleRequest ==
  \A k \in Keys : FirstUnsettled(k) => posts[k] <= 1

(***************************************************************************)
(* Properties of unlockAudio, checked under SpecUnlock.                    *)
(***************************************************************************)
\* the silent Audio elements created so far
SilentAudios == {u \in DOMAIN unlockCalls : unlockCalls[u].play # "none"}

\* the silent Audio elements created by the step
SilentAudiosNext == {u \in DOMAIN unlockCalls' : unlockCalls'[u].play # "none"}

\* unlockAudio may be called at any time and does nothing outside iOS
C26_State ==
  /\ Len(unlockCalls) < MaxUnlocks => ENABLED unlockAudio
  /\ ~isIOS => SilentAudios = {} /\ ~isAudioUnlocked

C26_Step ==
  \* the flag only goes from false to true, when a silent play resolves
  /\ isAudioUnlocked' # isAudioUnlocked =>
       /\ ~isAudioUnlocked /\ isAudioUnlocked'
       /\ \E u \in SilentAudios :
            /\ unlockCalls[u].play = "pending"
            /\ unlockCalls'[u].play = "resolved"
  \* once it is true, no call creates or plays a silent element
  /\ isAudioUnlocked => SilentAudiosNext = SilentAudios
  \* a call returns without touching anything but its own silent element,
  \* and a rejected play of it is swallowed
  /\ UNCHANGED << clientVars, serverVars, decoderVars, uiVars, isIOS, audioCtx, audioBufferCache >>
  /\ \A u \in DOMAIN unlockCalls :
       unlockCalls[u].play \in {"none", "resolved", "rejected"} =>
         unlockCalls'[u] = unlockCalls[u]

(* C26: unlockAudio can be called any number of times and never throws or  *)
(* rejects; outside iOS it does nothing; isAudioUnlocked only changes from *)
(* false to true, when a silent play resolves; once it is true no further  *)
(* silent audio is created or played.                                      *)
C26_UnlockIdempotent == [](C26_State) /\ [][C26_Step]_vars

\* on iOS a silent play has resolved and a later call did nothing, while an
\* earlier play was rejected
C26_Witness ==
  /\ isIOS /\ isAudioUnlocked
  /\ \E u, v, w \in DOMAIN unlockCalls :
       /\ unlockCalls[u].play = "rejected"
       /\ unlockCalls[v].play = "resolved"
       /\ v < w
       /\ unlockCalls[w].play = "none"

(* C27: at most one AudioContext is ever created, and it is never closed   *)
(* or replaced; on the Web Audio path a source node is started only when   *)
(* the context runs, after the resume() of a suspended context completed.  *)
C27_State ==
  /\ audioCtx.created <= 1
  /\ audioCtx.state \in (IF audioCtx.created = 0 THEN {"none"}
                         ELSE ContextStates)
  /\ \A c \in DOMAIN calls :
       calls[c].startedOn # "none" => calls[c].startedOn = "running"
  /\ \A c \in DOMAIN calls :
       calls[c].pc = "resuming" => audioCtx.state = "suspended"

C27_Step ==
  /\ audioCtx.created = 1 =>
       /\ audioCtx'.created = 1
       /\ audioCtx.state = "running" => audioCtx'.state = "running"
  /\ \A c \in DOMAIN calls :
       calls[c].startedOn = "none" /\ calls'[c].startedOn # "none" =>
         audioCtx'.state = "running"

C27_ContextLifecycle == [](C27_State) /\ [][C27_Step]_vars

\* unlockAudio and two calls have used one context, and a call that found
\* it suspended has started its source after the resume
C27_Witness ==
  /\ audioCtx.created = 1
  /\ unlockCalls # << >>
  /\ \E c, d \in DOMAIN calls :
       /\ c # d
       /\ calls[c].waited /\ calls[c].startedOn = "running"
       /\ calls[d].startedOn = "running"

(***************************************************************************)
(* Properties of the raw PCM decoder, checked under SpecDecoder.           *)
(***************************************************************************)
\* decodeAudioData has run
Decoded == pcmDecoded.status # "none"

\* the decoder returned a buffer made as the claim says: an odd-length
\* input padded with exactly one zero byte, an even-length input unchanged,
\* one 16-bit sample for every two bytes
PaddedAndDecoded ==
  LET n == Len(pcmData)
  IN  /\ pcmDecoded.status = "returned"
      /\ pcmDecoded.decoded =
           (IF n % 2 = 1 THEN pcmData \o << 0 >> ELSE pcmData)
      /\ Len(pcmDecoded.channelData) = 1
      /\ Len(pcmDecoded.channelData[1]) = (n + (n % 2)) \div 2
      /\ \A i \in 1..Len(pcmDecoded.channelData[1]) :
           pcmDecoded.channelData[1][i] = Int16At(pcmDecoded.decoded, i)

\* the caller's bytes are as they were before the call
C28_Step == pcmData' = pcmData

\* C28 as stated: for raw PCM input of ANY byte length n decodeAudioData
\* does not fail; odd n is padded with one zero byte, even n is used
\* unchanged.
C28_AnyLength == Decoded => PaddedAndDecoded

C28_State ==
  /\ Decoded /\ Len(pcmData) >= 1 => PaddedAndDecoded
  /\ Decoded /\ Len(pcmData) = 0 =>
       pcmDecoded.status = "thrown" /\ pcmDecoded.error = "NotSupportedError"

(* C28, amended: for raw PCM input of any byte length n >= 1,              *)
(* decodeAudioData does not fail; an odd n is padded with exactly one zero *)
(* byte before the bytes are read as 16-bit samples (2501 bytes become     *)
(* 2502 bytes, 1251 samples), an even n is used unchanged, and the         *)
(* caller's bytes are not modified.  An empty input makes createBuffer     *)
(* throw.                                                                  *)
C28_OddLengthPadded == [](C28_State) /\ [][C28_Step]_vars

\* the 2501-byte payload has been decoded into 2502 bytes, 1251 samples
C28_Witness ==
  /\ Len(pcmData) = 2501
  /\ pcmDecoded.status = "returned"
  /\ Len(pcmDecoded.decoded) = 2502
  /\ pcmDecoded.decoded[2502] = 0
  /\ Len(pcmDecoded.channelData[1]) = 1251

(***************************************************************************)
(* The tone fallback of the Postgres-backed handler, under SpecServer.     *)
(***************************************************************************)
C29_State ==
  \A r \in DOMAIN requests :
    LET req == requests[r]
    IN  variant = "postgres" =>
        /\ Len(req.fetched) <= 2
        /\ Len(req.fetched) >= 1 => req.fetched[1] = req.text
        /\ Len(req.fetched) = 2 => req.fetched[2] = req.text \o << "1" >>
        /\ req.pc = "fetch" => Len(req.fetched) = 1
        /\ req.pc = "fallback" => Len(req.fetched) = 2

C29_Step ==
  \A r \in DOMAIN requests :
    \* a second fetch is issued only by a first fetch that returned 404
    /\ ( Len(requests[r].fetched) >= 1
         /\ requests'[r].fetched # requests[r].fetched )
         => /\ Len(requests[r].fetched) = 1
            /\ \E res \in UpstreamResults :
                 ~res.thrown /\ res.status = 404 /\ PgFetchSettles(r, res)
    \* any other outcome of the first fetch ends the fetching
    /\ \A res \in UpstreamResults :
         ( PgFetchSettles(r, res) /\ (res.thrown \/ res.status # 404) )
           => /\ requests'[r].fetched = requests[r].fetched
              /\ requests'[r].pc \in {"done", "arrayBuffer"}
    \* the second fetch is not repeated; its result alone decides
    /\ \A res \in UpstreamResults :
         PgFallbackSettles(r, res)
           => /\ requests'[r].fetched = requests[r].fetched
              /\ res.thrown => Refused(r, 500, "Internal Server Error")
              /\ ~res.thrown /\ ~IsOk(res.status)
                   => Refused(r, 404, NotFoundReply)
              /\ ~res.thrown /\ IsOk(res.status) /\ IsHtml(res.contentType)
                   => Refused(r, 404, HtmlReply)
              /\ ~res.thrown /\ IsOk(res.status) /\ ~IsHtml(res.contentType)
                   => /\ requests'[r].pc = "arrayBuffer"
                      /\ requests'[r].responses = 0

(* C29: in the Postgres-backed handler a request issues at most two        *)
(* upstream fetches; the second, for the key with "1" appended, is issued  *)
(* only when the first returned 404, is tried once, and its result alone   *)
(* decides the response; any other first outcome leaves one fetch.         *)
C29_ToneFallback == [](C29_State) /\ [][C29_Step]_vars

\* one request was served by the fallback after a first 404, another was
\* refused after its fallback also returned 404
C29_Witness ==
  \E r, q \in DOMAIN requests :
    /\ Len(requests[r].fetched) = 2
    /\ requests[r].pc = "done" /\ requests[r].status = 200
    /\ Len(requests[q].fetched) = 2
    /\ requests[q].pc = "done" /\ requests[q].status = 404
    /\ requests[q].reply = NotFoundReply

(***************************************************************************)
(* The memory cache of services/geminiService.ts, under SpecClient.        *)
(***************************************************************************)
C30_Step ==
  \A k \in Keys :
    \* an entry is neither deleted nor replaced
    /\ audioUrlCache[k] # 0 => audioUrlCache'[k] = audioUrlCache[k]
    \* an entry is written by a call that missed the memory cache and found
    \* no pending fetch (line 69), or by the owner of the fetch when it
    \* settles (line 103)
    /\ audioUrlCache'[k] # audioUrlCache[k] =>
         /\ audioUrlCache'[k] = Len(blobUrls')
         /\ Len(blobUrls') = Len(blobUrls) + 1
         /\ \/ /\ pendingRequests[k] = 0
               /\ Len(calls') = Len(calls) + 1
               /\ calls'[Len(calls')].pinyin = k
            \/ /\ pendingRequests[k] # 0
               /\ pendingRequests'[k] = 0
               /\ promises'[pendingRequests[k]].state = "fulfilled"

(* C30: once audioUrlCache holds an entry for key k, the entry is never    *)
(* deleted and never replaced by a different value, under any interleaving *)
(* of calls; entries are written only on a memory miss.                    *)
C30_WriteOnce == [][C30_Step]_vars

\* both keys are cached, one by a fetch and one from localStorage
C30_Witness ==
  /\ \A k \in Keys : audioUrlCache[k] # 0
  /\ \E p \in DOMAIN promises : promises[p].state = "fulfilled"
  /\ \E c \in DOMAIN calls :
       /\ calls[c].awaits = 0
       /\ calls[c].audioUrl = audioUrlCache[calls[c].pinyin]

(* C31: every caller of fetchAudioData, the requester and each caller that *)
(* joined the pending promise, gets its own copy of the fetched bytes: no  *)
(* caller passes to decodeAudioData or to the Blob a buffer that another   *)
(* caller's decode has detached.                                           *)
\* the calls that have passed a buffer to decodeAudioData or to new Blob
Passed == {c \in DOMAIN calls : calls[c].buffer # NoArrayBuffer}

\* the buffers that ctx.decodeAudioData has detached
Detached == IF isIOS THEN {} ELSE {calls[c].buffer : c \in Passed}

C31_State ==
  \A c, d \in Passed : c # d => calls[c].buffer # calls[d].buffer

C31_Step ==
  \A c \in DOMAIN calls' :
    (c \notin Passed /\ calls'[c].buffer # NoArrayBuffer)
      => /\ calls'[c].buffer \notin Detached
         /\ calls'[c].buffer.copy = c

C31_NoAliasing == [](C31_State) /\ [][C31_Step]_vars

\* the requester and a joiner of one fetch both decode, each its own copy
C31_Witness ==
  /\ ~isIOS
  /\ \E c, d \in Passed :
       /\ c # d
       /\ calls[c].buffer.promise # 0
       /\ calls[c].buffer.promise = calls[d].buffer.promise
       /\ calls[c].pc = "decoding" /\ calls[d].pc = "decoding"

(***************************************************************************)
(* Termination of the client, checked under SpecClientLive.                *)
(***************************************************************************)
\* call c has resolved with a duration or rejected
HasSettled(c) == c \in DOMAIN calls /\ calls[c].pc \in {"resolved", "rejected"}

PendingEmpty == \A k \in Keys : pendingRequests[k] = 0

\* no caller waits on a promise that has settled, and the pending table
\* holds unsettled fetches only
C32_State ==
  /\ \A c \in DOMAIN calls :
       calls[c].pc \in {"awaitPending", "awaitFetch"} =>
         promises[calls[c].awaits].state \in {"fetch", "json"}
  /\ \A k \in Keys :
       pendingRequests[k] # 0 =>
         promises[pendingRequests[k]].state \in {"fetch", "json"}

(* C32: provided the network request and the media element settle, every   *)
(* playPinyinAudio call, joiners included, eventually resolves with a      *)
(* duration or rejects, and the pending table eventually becomes empty; no *)
(* caller waits on an entry whose fetch has settled.                       *)
C32_EverySettles ==
  /\ [](C32_State)
  /\ \A c \in 1..MaxCalls : (c \in DOMAIN calls) ~> HasSettled(c)
  /\ (~PendingEmpty) ~> PendingEmpty

\* a caller that joined a pending fetch has resolved with a duration, and
\* the pending table is empty
C32_Witness ==
  /\ PendingEmpty
  /\ \E c \in DOMAIN calls :
       /\ calls[c].reads = << "audioUrlCache", "pendingRequests" >>
       /\ calls[c].pc = "resolved"
       /\ calls[c].duration > 0

(***************************************************************************)
(* PinyinCard: components/PinyinCard.tsx lines 12-53.                      *)
(*                                                                         *)
(* A click is a discrete event: React renders the state it sets before the *)
(* next event is dispatched, so each handler reads the state the previous  *)
(* step left.  playPinyinAudio is the card's environment: a call is        *)
(* pending until it resolves with a duration or rejects.  Durations are    *)
(* kept in milliseconds, i.e. as the value of duration * 1000 of line 41.  *)
(***************************************************************************)
MaxCardClicks == 4

\* duration * 1000 of the clips: below and above the 500 ms floor
CardDurations == {300, 2000}

\* line 41 without the floor of 500 ms
animDurationRaw(duration) == duration

\* line 41: Math.max(duration * 1000, 500)
animDuration(duration) == IF duration > 500 THEN duration ELSE 500

\* line 26 without the test of isLoading
ClickAcceptedWhileLoading == ~disabled

\* line 26: the click passes the guard
ClickAccepted == ~(disabled \/ isLoading)

\* lines 25-34: a click, up to the await of playPinyinAudio
handleClick ==
  /\ cardClicks < MaxCardClicks
  /\ cardClicks' = cardClicks + 1
  /\ IF ClickAccepted
       THEN /\ onClickCalls' = onClickCalls + 1
            /\ isLoading' = TRUE
            /\ cardError' = FALSE
            /\ cardCalls' = Append(cardCalls, [status |-> "pending", duration |-> 0])
            /\ UNCHANGED << isPlaying, timerRef, disabled, cardTimers >>
       ELSE UNCHANGED << isPlaying, isLoading, cardError, timerRef, disabled,
                         cardTimers, cardCalls, onClickCalls >>
  /\ UNCHANGED << clientVars, serverVars, platformVars, decoderVars,
                  memoryVars, quizVars >>

\* lines 34-45: the call of the c-th accepted click resolves with duration
CardAudioResolves(c, duration) ==
  /\ cardCalls[c].status = "pending"
  /\ cardCalls' = [cardCalls EXCEPT ![c] = [status |-> "resolved", duration |-> duration]]
  /\ isLoading' = FALSE
  /\ isPlaying' = TRUE
  /\ cardTimers' = {t \in cardTimers : t.id # timerRef}
                     \cup {[id |-> c, delay |-> animDuration(duration)]}
  /\ timerRef' = c
  /\ UNCHANGED << cardError, disabled, onClickCalls, cardClicks >>
  /\ UNCHANGED << clientVars, serverVars, platformVars, decoderVars,
                  memoryVars, quizVars >>

\* lines 47-52 with setIsLoading(false) left out
CardAudioRejectsKeepsLoading(c) ==
  /\ cardCalls[c].status = "pending"
  /\ cardCalls' = [cardCalls EXCEPT ![c].status = "rejected"]
  /\ cardError' = TRUE
  /\ isPlaying' = FALSE
  /\ UNCHANGED << isLoading, timerRef, disabled, cardTimers, onClickCalls, cardClicks >>
  /\ UNCHANGED << clientVars, serverVars, platformVars, decoderVars,
                  memoryVars, quizVars >>

\* lines 47-52: the call of the c-th accepted click rejects
CardAudioRejects(c) ==
  /\ cardCalls[c].status = "pending"
  /\ cardCalls' = [cardCalls EXCEPT ![c].status = "rejected"]
  /\ cardError' = TRUE
  /\ isLoading' = FALSE
  /\ isPlaying' = FALSE
  /\ UNCHANGED << timerRef, disabled, cardTimers, onClickCalls, cardClicks >>
  /\ UNCHANGED << clientVars, serverVars, platformVars, decoderVars,
                  memoryVars, quizVars >>

\* lines 43-45: the timeout t expires
CardTimerFires(t) ==
  /\ t \in cardTimers
  /\ cardTimers' = cardTimers \ {t}
  /\ isPlaying' = FALSE
  /\ UNCHANGED << isLoading, cardError, timerRef, disabled, cardCalls,
                  onClickCalls, cardClicks >>
  /\ UNCHANGED << clientVars, serverVars, platformVars, decoderVars,
                  memoryVars, quizVars >>

\* line 12: the parent renders the card with another value of disabled
SetDisabled(b) ==
  /\ b # disabled
  /\ disabled' = b
  /\ UNCHANGED << isPlaying, isLoading, cardError, timerRef, cardTimers,
                  cardCalls, onClickCalls, cardClicks >>
  /\ UNCHANGED << clientVars, serverVars, platformVars, decoderVars,
                  memoryVars, quizVars >>

CardNext ==
  \/ handleClick
  \/ \E c \in DOMAIN cardCalls, duration \in CardDurations :
       CardAudioResolves(c, duration)
  \/ \E c \in DOMAIN cardCalls : CardAudioRejects(c)
  \/ \E t \in cardTimers : CardTimerFires(t)
  \/ \E b \in BOOLEAN : SetDisabled(b)

InitCard ==
  CardIdle /\ MemoryIdle /\ QuizIdle /\ ClientIdle /\ ServerIdle
    /\ PlatformIdle /\ DecoderIdle

\* every playPinyinAudio call settles and every timeout expires
CardFairness ==
  /\ \A c \in 1..MaxCardClicks :
       WF_vars(c \in DOMAIN cardCalls
                 /\ ((\E duration \in CardDurations : CardAudioResolves(c, duration))
                     \/ CardAudioRejects(c)))
  /\ WF_vars(\E t \in cardTimers : CardTimerFires(t))

SpecCard == InitCard /\ [][CardNext]_vars /\ CardFairness

(***************************************************************************)
(* C33: the playing indicator of a PinyinCard.                             *)
(***************************************************************************)
\* the timeout that the resolution of call c with its duration has to set
IndicatorTimer(c) ==
  [ id |-> c,
    delay |-> IF cardCalls[c].duration >= 500 THEN cardCalls[c].duration ELSE 500 ]

C33_State ==
  /\ Cardinality(cardTimers) <= 1
  /\ isPlaying =>
       /\ timerRef \in DOMAIN cardCalls
       /\ cardCalls[timerRef].status = "resolved"
       /\ cardTimers = {IndicatorTimer(timerRef)}

C33_Step ==
  /\ \A c \in DOMAIN cardCalls :
       (cardCalls[c].status = "pending" /\ cardCalls'[c].status = "resolved") =>
         /\ ~isLoading' /\ isPlaying'
         /\ timerRef' = c
         /\ cardTimers' = {[ id |-> c,
                             delay |-> IF cardCalls'[c].duration >= 500
                                         THEN cardCalls'[c].duration ELSE 500 ]}
  /\ \A t \in cardTimers \ cardTimers' :
       \/ ~isPlaying' /\ cardCalls' = cardCalls
       \/ \E c \in DOMAIN cardCalls :
            /\ cardCalls[c].status = "pending" /\ cardCalls'[c].status = "resolved"
            /\ c > t.id
  /\ (isPlaying /\ ~isPlaying') =>
       \/ cardTimers' # cardTimers
       \/ \E c \in DOMAIN cardCalls :
            cardCalls[c].status = "pending" /\ cardCalls'[c].status = "rejected"

\* C33: when playPinyinAudio resolves with duration d the card stops loading,
\* shows the playing indicator and sets one timeout of max(d * 1000, 500) ms
\* that resets the indicator unless a replay replaces it; at most one
\* indicator timeout is pending at any time, and a card that is loading or
\* playing eventually is neither.
C33_PlayingIndicator ==
  /\ [](C33_State)
  /\ [][C33_Step]_vars
  /\ ((isLoading \/ isPlaying) ~> (~isLoading /\ ~isPlaying))

\* a replay of a sub-second clip has restarted the timeout with the floor
C33_Witness ==
  /\ isPlaying /\ ~isLoading
  /\ timerRef >= 2
  /\ cardCalls[1].status = "resolved"
  /\ cardCalls[timerRef].duration = 300
  /\ cardTimers = {[id |-> timerRef, delay |-> 500]}

(***************************************************************************)
(* C34: the failure state of a PinyinCard.                                 *)
(***************************************************************************)
C34_State ==
  cardError =>
    /\ ~isLoading /\ ~isPlaying
    /\ Len(cardCalls) > 0
    /\ cardCalls[Len(cardCalls)].status = "rejected"

C34_Step ==
  /\ \A c \in DOMAIN cardCalls :
       (cardCalls[c].status = "pending" /\ cardCalls'[c].status = "rejected") =>
         cardError' /\ ~isLoading' /\ ~isPlaying'
  /\ (~cardError /\ cardError') =>
       \E c \in DOMAIN cardCalls :
         cardCalls[c].status = "pending" /\ cardCalls'[c].status = "rejected"
  /\ (cardError /\ cardClicks' = cardClicks + 1 /\ ~disabled) =>
       /\ ~cardError' /\ isLoading'
       /\ Len(cardCalls') = Len(cardCalls) + 1
       /\ cardCalls'[Len(cardCalls')].status = "pending"
  /\ (cardError /\ ~cardError') => Len(cardCalls') = Len(cardCalls) + 1

\* C34: a rejected playPinyinAudio leaves the card with error set, not
\* loading and not playing; the card then accepts a click unless disabled,
\* and that click clears error as it starts the new attempt, so error is
\* set only between a failed attempt and the next accepted click.
C34_FailureState == [](C34_State) /\ [][C34_Step]_vars

\* a replay has failed while the timeout of the first play is still pending,
\* after an earlier failure whose error a click had cleared
C34_Witness ==
  /\ cardError
  /\ Len(cardCalls) = 3
  /\ cardCalls[1].status = "rejected"
  /\ cardCalls[2].status = "resolved"
  /\ cardCalls[3].status = "rejected"
  /\ cardTimers # {}

(***************************************************************************)
(* C35: the click gate of a PinyinCard.                                    *)
(***************************************************************************)
PendingCardCalls == {c \in DOMAIN cardCalls : cardCalls[c].status = "pending"}

C35_State == Cardinality(PendingCardCalls) <= 1

C35_Step ==
  /\ (cardClicks' = cardClicks + 1 /\ (disabled \/ isLoading)) =>
       /\ onClickCalls' = onClickCalls
       /\ cardCalls' = cardCalls
       /\ UNCHANGED << isPlaying, isLoading, cardError, timerRef, disabled, cardTimers >>
  /\ (cardClicks' = cardClicks + 1 /\ isPlaying /\ ~isLoading /\ ~disabled) =>
       /\ onClickCalls' = onClickCalls + 1
       /\ Len(cardCalls') = Len(cardCalls) + 1
       /\ cardCalls'[Len(cardCalls')].status = "pending"
       /\ isLoading' /\ isPlaying'

\* C35: a click on a card that is disabled or loading calls neither onClick
\* nor playPinyinAudio and changes no state, so at most one playPinyinAudio
\* call of a card is outstanding; a click on an enabled card that is playing
\* and not loading is accepted and starts a replay.
C35_ClickGating == [](C35_State) /\ [][C35_Step]_vars

\* two clicks were ignored and a replay is outstanding while the indicator
\* of the first play is still shown
C35_Witness ==
  /\ cardClicks = 4 /\ onClickCalls = 2
  /\ isPlaying /\ isLoading
  /\ cardCalls[1].status = "resolved"
  /\ cardCalls[2].status = "pending"

(***************************************************************************)
(* MemoryGame: components/MemoryGame.tsx lines 12-141 and 192-193.         *)
(*                                                                         *)
(* A CardState is a mutable object and the arrays of lines 75, 103 and 133 *)
(* are shallow copies: heap holds the objects, an array is a sequence of   *)
(* references into heap.  Card ids are 1..2*NumPairs here, 0..11 in the    *)
(* code.  A timeout remembers the arrays and ids its closure captured.     *)
(***************************************************************************)
NumPairs == 3
MaxFlips == 8
MaxGames == 2

CardIds == 1..(2 * NumPairs)

\* two outcomes of the shuffle of lines 48-49, as the char of each position
Decks ==
  { [i \in CardIds |-> (i + 1) \div 2],
    [i \in CardIds |-> ((i - 1) % NumPairs) + 1] }

\* lines 49-56: the objects of a new deck
NewCards(deck) ==
  [i \in CardIds |->
     [id |-> i, char |-> deck[i], isFlipped |-> FALSE, isMatched |-> FALSE,
      justMatched |-> FALSE]]

\* lines 129, 123, 139: the delay of each kind of timeout
Delay(kind) ==
  CASE kind = "match" -> 500
    [] kind = "clear" -> 1000
    [] kind = "reset" -> 1200

\* setTimeout: a timeout set earlier with a delay not longer expires first
MayExpire(i) ==
  /\ i \in DOMAIN timeouts
  /\ \A j \in 1..(i - 1) : Delay(timeouts[j].kind) > Delay(timeouts[i].kind)

Remove(seq, i) == SubSeq(seq, 1, i - 1) \o SubSeq(seq, i + 1, Len(seq))

\* lines 93-141 with the comparison of line 98 taken as true
checkForMatchAlways(currentFlippedIds, currentCards, h) ==
  [ kind |-> "match", id1 |-> currentFlippedIds[1], id2 |-> currentFlippedIds[2],
    currentCards |-> currentCards ]

\* lines 93-141: the timeout checkForMatch sets
checkForMatch(currentFlippedIds, currentCards, h) ==
  LET id1 == currentFlippedIds[1]
      id2 == currentFlippedIds[2]
      card1 == h[currentCards[id1]]
      card2 == h[currentCards[id2]]
  IN  [ kind |-> IF card1.char = card2.char THEN "match" ELSE "reset",
        id1 |-> id1, id2 |-> id2, currentCards |-> currentCards ]

\* line 72 without the test of isProcessing
ClickIgnoredUnlessBusy(id) ==
  \/ \E k \in DOMAIN flippedIds : flippedIds[k] = id
  \/ heap[cards[id]].isMatched

\* line 72: the click is ignored
ClickIgnored(id) ==
  \/ isProcessing
  \/ \E k \in DOMAIN flippedIds : flippedIds[k] = id
  \/ heap[cards[id]].isMatched

\* the objects of the game before stay in the heap only while the array of
\* a pending timeout refers to them
Kept == IF \E i \in DOMAIN timeouts : timeouts[i].currentCards # << >>
          THEN heap ELSE << >>

\* lines 39-63: the deal of a new game
Deal(deck) ==
  /\ heap' = Kept \o NewCards(deck)
  /\ cards' = [i \in CardIds |-> Len(Kept) + i]
  /\ flippedIds' = << >>
  /\ isProcessing' = FALSE
  /\ moves' = 0
  /\ gameWon' = FALSE
  /\ games' = games + 1

\* lines 39-63, 375: the button shown once the game is won
startNewGame(deck) ==
  /\ gameWon
  /\ games < MaxGames
  /\ Deal(deck)
  /\ UNCHANGED << timeouts, audioPlays >>
  /\ UNCHANGED << clientVars, serverVars, platformVars, decoderVars,
                  cardVars, quizVars >>

\* lines 70-91: a click on card id
handleCardClick(id) ==
  /\ id \in DOMAIN cards
  /\ IF ClickIgnored(id)
       THEN UNCHANGED memoryVars
       ELSE LET newCards == cards
                h == [heap EXCEPT ![newCards[id]].isFlipped = TRUE]
                newFlippedIds == Append(flippedIds, id)
            IN  /\ audioPlays < MaxFlips
                /\ heap' = h
                /\ cards' = newCards
                /\ audioPlays' = audioPlays + 1
                /\ flippedIds' = newFlippedIds
                /\ IF Len(newFlippedIds) = 2
                     THEN /\ moves' = moves + 1
                          /\ isProcessing' = TRUE
                          /\ timeouts' =
                               Append(timeouts, checkForMatch(newFlippedIds, newCards, h))
                     ELSE UNCHANGED << moves, isProcessing, timeouts >>
                /\ UNCHANGED << gameWon, games >>
  /\ UNCHANGED << clientVars, serverVars, platformVars, decoderVars,
                  cardVars, quizVars >>

\* lines 102-129, 192-193: the timeout of a matching pair expires
MatchTimeout(i) ==
  /\ MayExpire(i)
  /\ timeouts[i].kind = "match"
  /\ LET t == timeouts[i]
         matchedCards == t.currentCards
         h == [heap EXCEPT ![matchedCards[t.id1]].justMatched = TRUE,
                           ![matchedCards[t.id2]].justMatched = TRUE,
                           ![matchedCards[t.id1]].isMatched = TRUE,
                           ![matchedCards[t.id2]].isMatched = TRUE]
     IN  /\ heap' = h
         /\ cards' = matchedCards
         /\ flippedIds' = << >>
         /\ isProcessing' = FALSE
         /\ timeouts' = Append(Remove(timeouts, i),
                               [ kind |-> "clear", id1 |-> t.id1, id2 |-> t.id2,
                                 currentCards |-> << >> ])
         /\ gameWon' = IF \A k \in DOMAIN matchedCards : h[matchedCards[k]].isMatched
                         THEN TRUE ELSE gameWon
  /\ UNCHANGED << moves, audioPlays, games >>
  /\ UNCHANGED << clientVars, serverVars, platformVars, decoderVars,
                  cardVars, quizVars >>

\* lines 132-139 with line 135 left out
ResetTimeoutOneCard(i) ==
  /\ MayExpire(i)
  /\ timeouts[i].kind = "reset"
  /\ LET t == timeouts[i]
         resetCards == t.currentCards
     IN  /\ heap' = [heap EXCEPT ![resetCards[t.id1]].isFlipped = FALSE]
         /\ cards' = resetCards
         /\ flippedIds' = << >>
         /\ isProcessing' = FALSE
         /\ timeouts' = Remove(timeouts, i)
  /\ UNCHANGED << moves, gameWon, audioPlays, games >>
  /\ UNCHANGED << clientVars, serverVars, platformVars, decoderVars,
                  cardVars, quizVars >>

\* lines 132-139: the timeout of a pair that does not match expires
ResetTimeout(i) ==
  /\ MayExpire(i)
  /\ timeouts[i].kind = "reset"
  /\ LET t == timeouts[i]
         resetCards == t.currentCards
     IN  /\ heap' = [heap EXCEPT ![resetCards[t.id1]].isFlipped = FALSE,
                                 ![resetCards[t.id2]].isFlipped = FALSE]
         /\ cards' = resetCards
         /\ flippedIds' = << >>
         /\ isProcessing' = FALSE
         /\ timeouts' = Remove(timeouts, i)
  /\ UNCHANGED << moves, gameWon, audioPlays, games >>
  /\ UNCHANGED << clientVars, serverVars, platformVars, decoderVars,
                  cardVars, quizVars >>

\* lines 119-123: the timeout that removes the justMatched flags expires;
\* the map puts a new object in the place of each card with one of the ids
ClearTimeout(i) ==
  /\ MayExpire(i)
  /\ timeouts[i].kind = "clear"
  /\ LET t == timeouts[i]
         prev == cards
         hits == {k \in DOMAIN prev : heap[prev[k]].id \in {t.id1, t.id2}}
         rank(k) == Cardinality({j \in hits : j <= k})
         hit(r) == CHOOSE k \in hits : rank(k) = r
     IN  /\ heap' = heap \o [r \in 1..Cardinality(hits) |->
                               [heap[prev[hit(r)]] EXCEPT !.justMatched = FALSE]]
         /\ cards' = [k \in DOMAIN prev |->
                        IF k \in hits THEN Len(heap) + rank(k) ELSE prev[k]]
         /\ timeouts' = Remove(timeouts, i)
  /\ UNCHANGED << flippedIds, isProcessing, moves, gameWon, audioPlays, games >>
  /\ UNCHANGED << clientVars, serverVars, platformVars, decoderVars,
                  cardVars, quizVars >>

MemoryNext ==
  \/ \E id \in CardIds : handleCardClick(id)
  \/ \E i \in DOMAIN timeouts : MatchTimeout(i)
  \/ \E i \in DOMAIN timeouts : ResetTimeout(i)
  \/ \E i \in DOMAIN timeouts : ClearTimeout(i)
  \/ \E deck \in Decks : startNewGame(deck)

\* lines 66-68: the effect of the mount has dealt the first game
MemoryInit ==
  /\ \E deck \in Decks :
       /\ heap = NewCards(deck)
       /\ cards = [i \in CardIds |-> i]
  /\ flippedIds = << >> /\ isProcessing = FALSE /\ moves = 0
  /\ gameWon = FALSE /\ timeouts = << >> /\ audioPlays = 0 /\ games = 1

InitMemory ==
  MemoryInit /\ CardIdle /\ QuizIdle /\ ClientIdle /\ ServerIdle
    /\ PlatformIdle /\ DecoderIdle

\* every timeout expires: the oldest pending one is never held back
MemoryFairness ==
  WF_vars(MatchTimeout(1) \/ ResetTimeout(1) \/ ClearTimeout(1))

SpecMemory == InitMemory /\ [][MemoryNext]_vars /\ MemoryFairness

(***************************************************************************)
(* C36: justMatched is temporary.                                          *)
(***************************************************************************)
\* the object the state shows at position k
CardAt(k) == heap[cards[k]]

C36_Step ==
  \A k \in DOMAIN cards :
    (games' = games /\ CardAt(k).isMatched /\ ~CardAt(k).justMatched) =>
      ~heap'[cards'[k]].justMatched

\* C36: the justMatched flag of a matched card is removed by the timeout set
\* at the match and, once removed, stays off for the rest of the game,
\* whatever is clicked and whichever timeout expires afterwards.
C36_JustMatchedTemporary ==
  /\ [][C36_Step]_vars
  /\ \A k \in CardIds :
       (k \in DOMAIN cards /\ CardAt(k).justMatched)
         ~> (k \in DOMAIN cards /\ ~CardAt(k).justMatched)

(***************************************************************************)
(* C37: the flip gate of the memory game.                                  *)
(***************************************************************************)
\* the timeouts of a pair that wait to expire
PairTimeouts ==
  {i \in DOMAIN timeouts : timeouts[i].kind \in {"match", "reset"}}

FaceUpUnmatched ==
  {k \in DOMAIN cards : CardAt(k).isFlipped /\ ~CardAt(k).isMatched}

C37_State ==
  /\ Len(flippedIds) <= 2
  /\ \A i, j \in DOMAIN flippedIds : i # j => flippedIds[i] # flippedIds[j]
  /\ Cardinality(FaceUpUnmatched) <= 2
  /\ isProcessing <=> Len(flippedIds) = 2
  /\ isProcessing <=> Cardinality(PairTimeouts) = 1
  /\ Cardinality(PairTimeouts) <= 1
  /\ \A i \in PairTimeouts :
       /\ timeouts[i].id1 # timeouts[i].id2
       /\ << timeouts[i].id1, timeouts[i].id2 >> = flippedIds

\* a step that plays audio is a click on a face-down, unmatched card at a
\* time when no pair is being processed, and flips that card only
C37_Step ==
  /\ audioPlays' # audioPlays =>
       /\ ~isProcessing
       /\ audioPlays' = audioPlays + 1
       /\ \E id \in DOMAIN cards :
            /\ ~CardAt(id).isFlipped /\ ~CardAt(id).isMatched
            /\ \A k \in DOMAIN flippedIds : flippedIds[k] # id
            /\ flippedIds' = Append(flippedIds, id)
            /\ heap' = [heap EXCEPT ![cards[id]].isFlipped = TRUE]
            /\ cards' = cards
  /\ \A id \in DOMAIN cards :
       ( handleCardClick(id)
         /\ ( isProcessing \/ CardAt(id).isMatched
              \/ \E k \in DOMAIN flippedIds : flippedIds[k] = id ) )
         => UNCHANGED memoryVars

\* C37: flippedIds never holds more than two ids and never the same id twice,
\* at most two unmatched cards are face up, isProcessing is true exactly
\* from the second flip until the timeout of that pair expires, and a click
\* during that time or on a flipped or matched card changes nothing and
\* plays nothing, so the two ids of a pair always differ.
C37_FlipGating == [](C37_State) /\ [][C37_Step]_vars

\* a pair that does not match waits for its flip-back while the flags of an
\* earlier match are still to be cleared
C37_Witness ==
  /\ isProcessing /\ Len(flippedIds) = 2
  /\ \E i \in DOMAIN timeouts : timeouts[i].kind = "reset"
  /\ \E i \in DOMAIN timeouts : timeouts[i].kind = "clear"
  /\ Cardinality(FaceUpUnmatched) = 2

(***************************************************************************)
(* C38: matching, winning and the new game.                                *)
(***************************************************************************)
MatchedCards == {k \in DOMAIN cards : CardAt(k).isMatched}

MatchedCardsNext == {k \in DOMAIN cards' : heap'[cards'[k]].isMatched}

C38_State ==
  /\ Cardinality(MatchedCards) % 2 = 0
  /\ gameWon <=> MatchedCards = DOMAIN cards
  /\ \A k \in MatchedCards :
       \E j \in MatchedCards : j # k /\ CardAt(j).char = CardAt(k).char

C38_Step ==
  /\ games' = games =>
       /\ MatchedCards \subseteq MatchedCardsNext
       /\ \A k \in DOMAIN cards : heap'[cards'[k]].char = CardAt(k).char
       /\ MatchedCardsNext # MatchedCards =>
            \E id1, id2 \in DOMAIN cards :
              /\ id1 # id2
              /\ CardAt(id1).char = CardAt(id2).char
              /\ MatchedCardsNext = MatchedCards \cup {id1, id2}
              /\ flippedIds = << id1, id2 >>
  /\ games' # games =>
       /\ gameWon
       /\ \A k \in DOMAIN cards' :
            LET c == heap'[cards'[k]]
            IN  c.id = k /\ ~c.isFlipped /\ ~c.isMatched /\ ~c.justMatched
       /\ flippedIds' = << >>
       /\ ~isProcessing'
       /\ moves' = 0
       /\ ~gameWon'

\* C38: isMatched is set only on two distinct cards with equal chars and is
\* never cleared within a game, so the number of matched cards is even;
\* gameWon is true exactly when every card is matched; startNewGame deals
\* fresh cards and resets flippedIds, isProcessing, moves and gameWon.
C38_Matching == [](C38_State) /\ [][C38_Step]_vars

\* a second game, dealt after a win, in which a pair has been matched
C38_Witness ==
  /\ games = 2
  /\ Cardinality(MatchedCards) = 2
  /\ ~gameWon /\ moves = 1

(***************************************************************************)
(* C39: the board becomes clickable again.                                 *)
(***************************************************************************)
C39_State ==
  \A i \in PairTimeouts :
    LET equal == CardAt(timeouts[i].id1).char = CardAt(timeouts[i].id2).char
    IN  /\ timeouts[i].kind = (IF equal THEN "match" ELSE "reset")
        /\ Delay(timeouts[i].kind) = (IF equal THEN 500 ELSE 1200)

\* the step that ends the processing of a pair that does not match
C39_Step ==
  ( /\ isProcessing /\ ~isProcessing'
    /\ CardAt(flippedIds[1]).char # CardAt(flippedIds[2]).char ) =>
      /\ flippedIds' = << >>
      /\ \A k \in DOMAIN cards :
           /\ heap'[cards'[k]].isMatched = CardAt(k).isMatched
           /\ heap'[cards'[k]].isFlipped =
                IF k \in {flippedIds[1], flippedIds[2]}
                  THEN FALSE ELSE CardAt(k).isFlipped
           /\ k \in {flippedIds[1], flippedIds[2]} => CardAt(k).isFlipped

\* C39: after the second flip of a pair the game eventually stops
\* processing with flippedIds empty, by a timeout of 500 ms when the chars
\* are equal and of 1200 ms when they differ; the timeout of a pair that
\* differs turns exactly its two cards face down and changes the flipped or
\* matched state of no other card.
C39_ClickableAgain ==
  /\ [](C39_State)
  /\ [][C39_Step]_vars
  /\ (isProcessing ~> (~isProcessing /\ flippedIds = << >>))

\* a pair that did not match has been turned back after the flags of an
\* earlier match were cleared in between
C39_Witness ==
  /\ ~isProcessing /\ flippedIds = << >> /\ timeouts = << >>
  /\ moves = 2
  /\ Cardinality(MatchedCards) = 2
  /\ FaceUpUnmatched = {}

(***************************************************************************)
(* QuizGame: components/QuizGame.tsx lines 16-138.                         *)
(*                                                                         *)
(* An item is represented by its char.  wrongChar, activeAnim, scorePopup  *)
(* and the confetti only drive animations and are left out.                *)
(***************************************************************************)
MaxQuestions == 3
MaxPlays == 2
MaxQuizTimeouts == 3

\* the chars of allItems
Items == {"b", "p", "m", "f"}

\* lines 34-57: a new question, its correct item and its two wrong options
generateQuestion(correctItem, wrongOptions) ==
  /\ correctItem \notin wrongOptions
  /\ Cardinality(wrongOptions) = 2
  /\ feedback' = "idle"
  /\ audioState' = "idle"
  /\ hasPlayed' = FALSE
  /\ currentQuestion' = correctItem
  /\ options' = {correctItem} \cup wrongOptions
  /\ questions' = questions + 1

\* lines 66-71: the play button, up to the await of playPinyinAudio
playCurrentSound ==
  /\ Len(quizCalls) < MaxPlays
  /\ IF currentQuestion = None
       THEN UNCHANGED quizVars
       ELSE /\ hasPlayed' = TRUE
            /\ audioState' = "loading"
            /\ quizCalls' = Append(quizCalls,
                 [status |-> "pending", char |-> currentQuestion, question |-> questions])
            /\ UNCHANGED << score, questionCount, currentQuestion, options,
                            feedback, hintShake, quizTimerRef, quizTimeouts,
                            questions >>
  /\ UNCHANGED << clientVars, serverVars, platformVars, decoderVars,
                  cardVars, memoryVars >>

\* lines 71-76: the call of the c-th press resolves
QuizAudioResolves(c) ==
  /\ quizCalls[c].status = "pending"
  /\ quizCalls' = [quizCalls EXCEPT ![c].status = "resolved"]
  /\ audioState' = "playing"
  /\ quizTimeouts' =
       Append(SelectSeq(quizTimeouts,
                        LAMBDA t : ~(t.kind = "audio" /\ t.id = quizTimerRef)),
              [kind |-> "audio", id |-> c])
  /\ quizTimerRef' = c
  /\ UNCHANGED << score, questionCount, currentQuestion, options, feedback,
                  hasPlayed, hintShake, questions >>
  /\ UNCHANGED << clientVars, serverVars, platformVars, decoderVars,
                  cardVars, memoryVars >>

\* lines 77-80: the call of the c-th press rejects
QuizAudioRejects(c) ==
  /\ quizCalls[c].status = "pending"
  /\ quizCalls' = [quizCalls EXCEPT ![c].status = "rejected"]
  /\ audioState' = "idle"
  /\ UNCHANGED << score, questionCount, currentQuestion, options, feedback,
                  hasPlayed, hintShake, quizTimerRef, quizTimeouts, questions >>
  /\ UNCHANGED << clientVars, serverVars, platformVars, decoderVars,
                  cardVars, memoryVars >>

\* line 90 without the test of feedback
AnswerableWhateverFeedback == currentQuestion # None

\* line 90: the click is not ignored
Answerable == ~(feedback # "idle" \/ currentQuestion = None)

\* lines 83-138: a click on the option selected
handleOptionClick(selected) ==
  /\ selected \in options
  /\ IF ~hasPlayed
       THEN /\ Len(quizTimeouts) < MaxQuizTimeouts
            /\ hintShake' = TRUE
            /\ quizTimeouts' = Append(quizTimeouts, [kind |-> "hint", id |-> 0])
            /\ UNCHANGED << score, questionCount, feedback >>
       ELSE IF ~Answerable
         THEN UNCHANGED << score, questionCount, feedback, hintShake, quizTimeouts >>
         ELSE IF selected = currentQuestion
           THEN /\ feedback' = "correct"
                /\ score' = score + 1
                /\ questionCount' = questionCount + 1
                /\ quizTimeouts' = Append(quizTimeouts, [kind |-> "next", id |-> 0])
                /\ UNCHANGED hintShake
           ELSE /\ feedback' = "wrong"
                /\ quizTimeouts' = Append(quizTimeouts, [kind |-> "wrong", id |-> 0])
                /\ UNCHANGED << score, questionCount, hintShake >>
  /\ UNCHANGED << currentQuestion, options, audioState, hasPlayed,
                  quizTimerRef, quizCalls, questions >>
  /\ UNCHANGED << clientVars, serverVars, platformVars, decoderVars,
                  cardVars, memoryVars >>

\* line 86: the timeout of the hint expires
HintTimeout(i) ==
  /\ i \in DOMAIN quizTimeouts
  /\ quizTimeouts[i].kind = "hint"
  /\ quizTimeouts' = Remove(quizTimeouts, i)
  /\ hintShake' = FALSE
  /\ UNCHANGED << score, questionCount, currentQuestion, options, feedback,
                  audioState, hasPlayed, quizTimerRef, quizCalls, questions >>
  /\ UNCHANGED << clientVars, serverVars, platformVars, decoderVars,
                  cardVars, memoryVars >>

\* lines 132-136: the timeout of a wrong answer expires
WrongTimeout(i) ==
  /\ i \in DOMAIN quizTimeouts
  /\ quizTimeouts[i].kind = "wrong"
  /\ quizTimeouts' = Remove(quizTimeouts, i)
  /\ feedback' = "idle"
  /\ UNCHANGED << score, questionCount, currentQuestion, options, audioState,
                  hasPlayed, hintShake, quizTimerRef, quizCalls, questions >>
  /\ UNCHANGED << clientVars, serverVars, platformVars, decoderVars,
                  cardVars, memoryVars >>

\* lines 74-76: the timeout of the audio indicator expires
AudioTimeout(i) ==
  /\ i \in DOMAIN quizTimeouts
  /\ quizTimeouts[i].kind = "audio"
  /\ quizTimeouts' = Remove(quizTimeouts, i)
  /\ audioState' = "idle"
  /\ UNCHANGED << score, questionCount, currentQuestion, options, feedback,
                  hasPlayed, hintShake, quizTimerRef, quizCalls, questions >>
  /\ UNCHANGED << clientVars, serverVars, platformVars, decoderVars,
                  cardVars, memoryVars >>

\* lines 121-123: the timeout of a correct answer expires
NextTimeout(i, correctItem, wrongOptions) ==
  /\ i \in DOMAIN quizTimeouts
  /\ quizTimeouts[i].kind = "next"
  /\ questions < MaxQuestions
  /\ quizTimeouts' = Remove(quizTimeouts, i)
  /\ generateQuestion(correctItem, wrongOptions)
  /\ UNCHANGED << score, questionCount, hintShake, quizTimerRef, quizCalls >>
  /\ UNCHANGED << clientVars, serverVars, platformVars, decoderVars,
                  cardVars, memoryVars >>

QuizNext ==
  \/ playCurrentSound
  \/ \E c \in DOMAIN quizCalls : QuizAudioResolves(c)
  \/ \E c \in DOMAIN quizCalls : QuizAudioRejects(c)
  \/ \E selected \in Items : handleOptionClick(selected)
  \/ \E i \in DOMAIN quizTimeouts : HintTimeout(i)
  \/ \E i \in DOMAIN quizTimeouts : WrongTimeout(i)
  \/ \E i \in DOMAIN quizTimeouts : AudioTimeout(i)
  \/ \E i \in DOMAIN quizTimeouts, correctItem \in Items, wrongOptions \in SUBSET Items :
       NextTimeout(i, correctItem, wrongOptions)

\* lines 59-60: the effect of the mount has generated the first question
QuizInit ==
  /\ \E correctItem \in Items, wrongOptions \in SUBSET Items :
       /\ correctItem \notin wrongOptions
       /\ Cardinality(wrongOptions) = 2
       /\ currentQuestion = correctItem
       /\ options = {correctItem} \cup wrongOptions
  /\ score = 0 /\ questionCount = 0 /\ feedback = "idle"
  /\ audioState = "idle" /\ hasPlayed = FALSE /\ hintShake = FALSE
  /\ quizTimerRef = 0 /\ quizTimeouts = << >> /\ quizCalls = << >>
  /\ questions = 1

InitQuiz ==
  QuizInit /\ CardIdle /\ MemoryIdle /\ ClientIdle /\ ServerIdle
    /\ PlatformIdle /\ DecoderIdle

\* every timeout expires
QuizFairness ==
  /\ WF_vars(\E i \in DOMAIN quizTimeouts : HintTimeout(i))
  /\ WF_vars(\E i \in DOMAIN quizTimeouts : WrongTimeout(i))
  /\ WF_vars(\E i \in DOMAIN quizTimeouts : AudioTimeout(i))

SpecQuiz == InitQuiz /\ [][QuizNext]_vars /\ QuizFairness

(***************************************************************************)
(* C40: scoring in the quiz.                                               *)
(***************************************************************************)
Pending(kind) == {i \in DOMAIN quizTimeouts : quizTimeouts[i].kind = kind}

C40_State ==
  /\ score = questionCount
  /\ score = (IF feedback = "correct" THEN questions ELSE questions - 1)
  /\ hasPlayed <=> \E c \in DOMAIN quizCalls : quizCalls[c].question = questions
  /\ Cardinality(Pending("wrong")) = (IF feedback = "wrong" THEN 1 ELSE 0)
  /\ Cardinality(Pending("next")) = (IF feedback = "correct" THEN 1 ELSE 0)

C40_Step ==
  /\ (score' # score \/ questionCount' # questionCount) =>
       /\ score' = score + 1
       /\ questionCount' = questionCount + 1
       /\ feedback = "idle" /\ hasPlayed
       /\ feedback' = "correct"
       /\ currentQuestion # None
       /\ handleOptionClick(currentQuestion)
  /\ \A selected \in options :
       (handleOptionClick(selected) /\ (~hasPlayed \/ feedback # "idle")) =>
         /\ score' = score /\ questionCount' = questionCount
         /\ feedback' = feedback /\ currentQuestion' = currentQuestion
  /\ \A selected \in options :
       ( handleOptionClick(selected) /\ hasPlayed /\ feedback = "idle"
         /\ selected # currentQuestion ) =>
         /\ feedback' = "wrong"
         /\ score' = score /\ questionCount' = questionCount
  /\ feedback = "wrong" =>
       /\ currentQuestion' = currentQuestion /\ questions' = questions
       /\ options' = options
       /\ score' = score /\ questionCount' = questionCount
       /\ feedback' \in {"wrong", "idle"}

\* C40: score and questionCount grow by one, together, only by a click on
\* the correct option while feedback is idle and after the play button was
\* pressed for the current question, hence at most once per question; a
\* click before the play button or while feedback is 'correct' or 'wrong'
\* leaves them unchanged; a wrong answer keeps the question and its
\* feedback returns to idle when its timeout of 800 ms expires.
C40_Scoring ==
  /\ [](C40_State)
  /\ [][C40_Step]_vars
  /\ ((feedback = "wrong") ~> (feedback = "idle"))

\* both questions have been answered correctly, each after its own press of
\* the play button
C40_Witness ==
  /\ score = 2 /\ questions = 2 /\ feedback = "correct"
  /\ Len(quizCalls) = 2
  /\ quizCalls[1].question = 1 /\ quizCalls[2].question = 2

=============================================================================
